---------------------------- MODULE Spec2Model ----------------------------
(***************************************************************************)
(* A model of the oong front end: the Lexer (src/src/lexer.cpp) and the    *)
(* recursive-descent Parser (src/src/parser.cpp).                          *)
(*                                                                         *)
(* The source buffer Src is a sequence of bytes.  An ASCII byte is the     *)
(* one-character string that shows it; the control bytes and the bytes     *)
(* >= 0x80 that the lexer tests for are named ("LF", "xE2", ...).  Source  *)
(* positions are 0-based, as in the C++ code: byte p is Src[p + 1].        *)
(*                                                                         *)
(* Every lexer function is an operator over (src, position); every parser  *)
(* production is an operator from the parser object (a record of the       *)
(* fields Cur, PrevTokenEnd and of the lexer's Pos, InTemplateString) to   *)
(* the object it leaves and the value it returns.  The actions of the      *)
(* state machine are the calls a client makes: Lexer::nextToken(), and     *)
(* the steps of Parser::parse().                                           *)
(***************************************************************************)
EXTENDS Integers, Sequences, FiniteSets, TLC

VARIABLES
  Src,               \* Lexer::Src, the immutable source buffer
  StrictMode,        \* Lexer::StrictMode
  Pos,               \* Lexer::Pos, the scan cursor
  InTemplateString,  \* Lexer::InTemplateString
  Cur,               \* Parser::Cur, the lookahead token
  PrevTokenEnd,      \* Parser::PrevTokenEnd
  LastTypeParsed,    \* Parser::LastTypeParsed
  halt,              \* "none", or how control left the program: "thrown" | "hung"
  pc,                \* where the client is: see the actions
  stmts,             \* parseSourceElements: the local vector stmts
  errors,            \* the messages of the failed results the productions
                     \* returned to the loop of parseSourceElements, in order
  se,                \* parse(): what parseSourceElements returned
  result,            \* what parse() returned: <<>> before it returns
  tok,               \* the token the last nextToken() call of the client returned
  prevKind,          \* the kind of the token the call before that returned
  prevPos,           \* Lexer::Pos before the last nextToken() call of the client
  calls,             \* number of nextToken() calls the client has made
  adv,               \* number of Parser::advance() calls made so far
  cerr,              \* whether anything was written to std::cerr
  cout,              \* whether anything was written to std::cout
  prod,              \* the production the client has called, "none" before
  entry,             \* the parser object that production was entered with
  matched            \* whether it returned a match (true, or a result)

lexerVars == <<Pos, InTemplateString>>
parserVars == <<Cur, PrevTokenEnd, LastTypeParsed, adv, cerr, cout>>
parseVars == <<stmts, errors, se, result>>
clientVars == <<tok, prevKind, prevPos, calls>>
attemptVars == <<prod, entry, matched>>
vars == <<Src, StrictMode, lexerVars, parserVars, halt, pc, parseVars, clientVars, attemptVars>>

-----------------------------------------------------------------------------
(* Bytes *)

LF  == "LF"    \* 0x0A '\n'
CR  == "CR"    \* 0x0D '\r'
TAB == "TAB"   \* 0x09 '\t'
VT  == "VT"    \* 0x0B '\v'
FF  == "FF"    \* 0x0C '\f'
BSL == "\\"    \* 0x5C, the backslash
DQ  == "\""    \* 0x22, the double quote
SQ  == "'"     \* 0x27, the single quote
BQ  == "BQ"    \* 0x60, the backtick

Lower == {"a","b","c","d","e","f","g","h","i","j","k","l","m",
          "n","o","p","q","r","s","t","u","v","w","x","y","z"}
Upper == {"A","B","C","D","E","F","G","H","I","J","K","L","M",
          "N","O","P","Q","R","S","T","U","V","W","X","Y","Z"}
DigitSeq == <<"0","1","2","3","4","5","6","7","8","9">>
Digit == {DigitSeq[i] : i \in 1..10}
OctDigit == {"0","1","2","3","4","5","6","7"}

\* The bytes with the high bit set, as the lexer classifies them:
\* (lead & 0xE0) == 0xC0, (lead & 0xF0) == 0xE0, (lead & 0xF8) == 0xF0, other.
Lead2 == {"xC2", "xC3"}
Lead3 == {"xE2", "xEF"}
Lead4 == {"xF0"}
HighOther == {"x80", "x8C", "x8D", "xA0", "xA8", "xA9", "xBB", "xBF"}
HighBit == Lead2 \cup Lead3 \cup Lead4 \cup HighOther   \* (c & 0x80) != 0

Size(src) == Len(src)                       \* Src.size()
\* Src[p]; std::string::operator[] gives '\0' at p == size()
At(src, p) == IF p < Len(src) THEN src[p + 1] ELSE "NUL"
\* Src.substr(start, len): the length is clamped to the end of the string
Substr(src, start, len) ==
  SubSeq(src, start + 1, IF start + len > Len(src) THEN Len(src) ELSE start + len)

isUtf8LineSeparator(s, pos) ==
  IF pos + 2 >= Size(s) THEN FALSE
  ELSE At(s, pos) = "xE2" /\ At(s, pos + 1) = "x80"
       /\ (At(s, pos + 2) = "xA8" \/ At(s, pos + 2) = "xA9")

isUtf8ZWNCorZWJ(s, pos) ==
  IF pos + 2 >= Size(s) THEN FALSE
  ELSE At(s, pos) = "xE2" /\ At(s, pos + 1) = "x80"
       /\ (At(s, pos + 2) = "x8C" \/ At(s, pos + 2) = "x8D")

utf8SequenceLength(lead) ==
  IF lead \notin HighBit THEN 1
  ELSE IF lead \in Lead2 THEN 2
  ELSE IF lead \in Lead3 THEN 3
  ELSE IF lead \in Lead4 THEN 4
  ELSE 1

lineTerminatorLength(s, pos) ==
  IF pos >= Size(s) THEN 0
  ELSE IF At(s, pos) = CR
       THEN (IF pos + 1 < Size(s) /\ At(s, pos + 1) = LF THEN 2 ELSE 1)
  ELSE IF At(s, pos) = LF THEN 1
  ELSE IF isUtf8LineSeparator(s, pos) THEN 3
  ELSE 0

isHexDigitFragment(ch) ==
  \/ ch = "_"
  \/ ch \in Digit
  \/ ch \in {"a","b","c","d","e","f"}
  \/ ch \in {"A","B","C","D","E","F"}

isSingleEscapeChar(ch) ==
  ch = DQ \/ ch = BSL \/ ch \in {"b","f","n","r","t","v"}

-----------------------------------------------------------------------------
(* Regular-expression and line-continuation helpers *)

regBackslashSequenceLength(s, pos) ==
  IF pos + 1 >= Size(s) THEN 0
  ELSE IF lineTerminatorLength(s, pos + 1) # 0 THEN 0
  ELSE LET len == utf8SequenceLength(At(s, pos + 1))
       IN  IF pos + 1 + (len - 1) >= Size(s) THEN 0 ELSE 1 + len

RECURSIVE regClassLoop(_, _, _)
regClassLoop(s, pos, p) ==
  IF p >= Size(s) THEN 0
  ELSE IF At(s, p) = "]" THEN p - pos + 1
  ELSE IF At(s, p) = BSL
       THEN LET blen == regBackslashSequenceLength(s, p)
            IN  IF blen = 0 THEN 0 ELSE regClassLoop(s, pos, p + blen)
  ELSE IF lineTerminatorLength(s, p) # 0 THEN 0
  ELSE IF At(s, p) \in HighBit
       THEN regClassLoop(s, pos, p + utf8SequenceLength(At(s, p)))
  ELSE regClassLoop(s, pos, p + 1)

regClassLength(s, pos) ==
  IF pos >= Size(s) \/ At(s, pos) # "[" THEN 0 ELSE regClassLoop(s, pos, pos + 1)

regFirstCharLength(s, pos) ==
  IF pos >= Size(s) THEN 0
  ELSE IF At(s, pos) = "[" THEN regClassLength(s, pos)
  ELSE IF At(s, pos) = BSL THEN regBackslashSequenceLength(s, pos)
  ELSE IF lineTerminatorLength(s, pos) # 0 THEN 0
  ELSE IF At(s, pos) = "/" THEN 0
  ELSE LET len == utf8SequenceLength(At(s, pos))
       IN  IF pos + len - 1 >= Size(s) THEN 0 ELSE len

regCharLength(s, pos) == regFirstCharLength(s, pos)

RECURSIVE lineContinuationLoop(_, _, _)
lineContinuationLoop(s, p, consumed) ==
  IF p >= Size(s) THEN consumed
  ELSE LET l2 == lineTerminatorLength(s, p)
       IN  IF l2 = 0 THEN consumed ELSE lineContinuationLoop(s, p + l2, consumed + l2)

lineContinuationLength(s, pos) ==
  IF pos >= Size(s) \/ At(s, pos) # BSL THEN 0
  ELSE IF lineTerminatorLength(s, pos + 1) = 0 THEN 0
  ELSE lineContinuationLoop(s, pos + 1, 1)

\* The run `while (r < Src.size() && isHexDigitFragment(Src[r])) ++r;`
RECURSIVE hexRun(_, _)
hexRun(s, r) ==
  IF r < Size(s) /\ isHexDigitFragment(At(s, r)) THEN hexRun(s, r + 1) ELSE r

\* The test the lexer repeats after a backslash and a 'u', q being the
\* position after the 'u': the position after \uXXXX or \u{X...}, or -1 when
\* neither form is there.
unicodeEscapeEnd(s, q) ==
  IF q + 3 < Size(s) /\ isHexDigitFragment(At(s, q)) /\ isHexDigitFragment(At(s, q + 1))
     /\ isHexDigitFragment(At(s, q + 2)) /\ isHexDigitFragment(At(s, q + 3))
  THEN q + 4
  ELSE IF q < Size(s) /\ At(s, q) = "{"
       THEN LET r == hexRun(s, q + 1)
            IN  IF r < Size(s) /\ At(s, r) = "}" /\ r > q + 1 THEN r + 1 ELSE -1
  ELSE -1

-----------------------------------------------------------------------------
(* Lexer: the hidden channel *)

\* The loop `while (Pos < Src.size()) { if (lineTerminatorLength) break; ++Pos; }`
RECURSIVE toLineEnd(_, _)
toLineEnd(s, pos) ==
  IF pos < Size(s) /\ lineTerminatorLength(s, pos) = 0 THEN toLineEnd(s, pos + 1) ELSE pos

\* Each skip function gives the Pos it leaves, or -1 when it returns false
\* (it then leaves Pos alone).
skipSingleLineComment(s, pos) ==
  IF At(s, pos) # "/" \/ pos + 1 >= Size(s) \/ At(s, pos + 1) # "/" THEN -1
  ELSE toLineEnd(s, pos + 2)

skipHashBang(s, pos) ==
  IF pos # 0 THEN -1
  ELSE LET checkPos == IF Size(s) >= 3 /\ At(s, 0) = "xEF" /\ At(s, 1) = "xBB" /\ At(s, 2) = "xBF"
                       THEN 3 ELSE pos
       IN  IF checkPos + 1 >= Size(s) \/ At(s, checkPos) # "#" \/ At(s, checkPos + 1) # "!"
           THEN -1
           ELSE toLineEnd(s, checkPos + 2)

\* The loops of skipHtmlComment and skipCDataComment: up to the three-byte
\* terminator a b c, or to the end of the source.
RECURSIVE toTerminator(_, _, _, _, _)
toTerminator(s, pos, a, b, c) ==
  IF pos + 2 < Size(s)
  THEN IF At(s, pos) = a /\ At(s, pos + 1) = b /\ At(s, pos + 2) = c
       THEN pos + 3
       ELSE toTerminator(s, pos + 1, a, b, c)
  ELSE Size(s)

skipHtmlComment(s, pos) ==
  IF pos + 3 >= Size(s) THEN -1
  ELSE IF At(s, pos) # "<" \/ At(s, pos + 1) # "!" \/ At(s, pos + 2) # "-" \/ At(s, pos + 3) # "-"
       THEN -1
  ELSE toTerminator(s, pos + 4, "-", "-", ">")

CDataPattern == <<"<","!","[","C","D","A","T","A","[">>

skipCDataComment(s, pos) ==
  LET patlen == Len(CDataPattern)
  IN  IF pos + patlen - 1 >= Size(s) THEN -1
      ELSE IF \E i \in 0..(patlen - 1) : At(s, pos + i) # CDataPattern[i + 1] THEN -1
      ELSE toTerminator(s, pos + patlen, "]", "]", ">")

RECURSIVE multiLineLoop(_, _, _)
multiLineLoop(s, pos, depth) ==
  IF pos + 1 < Size(s)
  THEN IF At(s, pos) = "/" /\ At(s, pos + 1) = "*"
       THEN multiLineLoop(s, pos + 2, depth + 1)
       ELSE IF At(s, pos) = "*" /\ At(s, pos + 1) = "/"
            THEN (IF depth - 1 = 0 THEN pos + 2 ELSE multiLineLoop(s, pos + 2, depth - 1))
       ELSE multiLineLoop(s, pos + 1, depth)
  ELSE Size(s)

skipMultiLineComment(s, pos) ==
  IF At(s, pos) # "/" \/ pos + 1 >= Size(s) \/ At(s, pos + 1) # "*" THEN -1
  ELSE multiLineLoop(s, pos + 2, 1)

RECURSIVE skipWhitespace(_, _)
skipWhitespace(s, pos) ==
  IF pos >= Size(s) THEN pos
  ELSE IF At(s, pos) \in {TAB, VT, FF, " ", "xA0"} THEN skipWhitespace(s, pos + 1)
  ELSE IF lineTerminatorLength(s, pos) # 0
       THEN skipWhitespace(s, pos + lineTerminatorLength(s, pos))
  ELSE IF skipHashBang(s, pos) # -1 THEN skipWhitespace(s, skipHashBang(s, pos))
  ELSE IF skipSingleLineComment(s, pos) # -1 THEN skipWhitespace(s, skipSingleLineComment(s, pos))
  ELSE IF skipHtmlComment(s, pos) # -1 THEN skipWhitespace(s, skipHtmlComment(s, pos))
  ELSE IF skipCDataComment(s, pos) # -1 THEN skipWhitespace(s, skipCDataComment(s, pos))
  ELSE IF skipMultiLineComment(s, pos) # -1 THEN skipWhitespace(s, skipMultiLineComment(s, pos))
  ELSE pos

-----------------------------------------------------------------------------
(* Lexer: tokens *)

OutOfRange == "std::out_of_range"   \* what Src.substr throws when start > size()
NoInt == <<>>                        \* an empty std::optional<int64_t>

\* makeToken() as it would be with a slice one byte short
makeTokenShort(s, k, start, len, intVal) ==
  [kind |-> k, text |-> SubSeq(s, start + 1, start + len - 1), pos |-> start,
   intValue |-> intVal]
\* Token{k, Src.substr(start, len)}, pos = start, intValue = intVal.  When
\* start > Src.size() substr throws: the result then carries the exception
\* in place of a kind, and no token is returned.
makeToken(s, k, start, len, intVal) ==
  IF start > Size(s)
  THEN [kind |-> OutOfRange, text |-> <<>>, pos |-> start, intValue |-> NoInt]
  ELSE [kind |-> k, text |-> Substr(s, start, len), pos |-> start, intValue |-> intVal]

\* A lexer that steps its cursor past the EOF token as past any other token
LexedPastEof(t, pos, tpl) ==
  [tok |-> t, Pos |-> IF t.kind = "Tok_EOF" THEN pos + 1 ELSE pos, InTemplateString |-> tpl]
\* What a nextToken() call leaves: the returned token and the lexer's fields.
Lexed(t, pos, tpl) == [tok |-> t, Pos |-> pos, InTemplateString |-> tpl]

RECURSIVE IsRegexPossibleLoop(_, _)
IsRegexPossibleLoop(s, p) ==
  IF p < 0 THEN TRUE
  ELSE IF At(s, p) \in {" ", TAB, VT, FF, "xA0"} THEN IsRegexPossibleLoop(s, p - 1)
  ELSE IF lineTerminatorLength(s, p) # 0
       THEN IsRegexPossibleLoop(s, p - lineTerminatorLength(s, p))
  ELSE At(s, p) \in {"(", ",", "=", ":", "[", "!", "?", "{", "}"}

IsRegexPossible(s, pos) ==
  IF pos = 0 THEN TRUE ELSE IsRegexPossibleLoop(s, pos - 1)

RECURSIVE ContainsLineTerminatorLoop(_, _, _)
ContainsLineTerminatorLoop(s, p, to) ==
  IF p < to /\ p < Size(s)
  THEN IF lineTerminatorLength(s, p) # 0 THEN TRUE
       ELSE ContainsLineTerminatorLoop(s, p + utf8SequenceLength(At(s, p)), to)
  ELSE FALSE

ContainsLineTerminatorBetween(s, from, to) ==
  IF from >= Size(s) THEN FALSE ELSE ContainsLineTerminatorLoop(s, from, to)

IdentChar == Lower \cup Upper \cup Digit \cup {"_", "$"}

\* The flags loop of scanRegularExpression
RECURSIVE regFlagsLoop(_, _)
regFlagsLoop(s, p) ==
  IF p >= Size(s) THEN p
  ELSE IF At(s, p) \in IdentChar THEN regFlagsLoop(s, p + 1)
  ELSE IF At(s, p) = BSL /\ p + 1 < Size(s) /\ At(s, p + 1) = "u"
          /\ unicodeEscapeEnd(s, p + 2) # -1
       THEN regFlagsLoop(s, unicodeEscapeEnd(s, p + 2))
  ELSE p

\* The body loop of scanRegularExpression; the result is always a token.
RECURSIVE regBodyLoop(_, _, _, _)
regBodyLoop(s, start, p, tpl) ==
  IF p >= Size(s)
  THEN Lexed(makeToken(s, "Tok_Invalid", start, p - start, NoInt), p, tpl)
  ELSE IF At(s, p) = "/"
       THEN LET e == regFlagsLoop(s, p + 1)
            IN  Lexed(makeToken(s, "Tok_RegularExpressionLiteral", start, e - start, NoInt), e, tpl)
  ELSE LET clen == regCharLength(s, p)
       IN  IF clen = 0
           THEN Lexed(makeToken(s, "Tok_Invalid", start, p - start, NoInt), p, tpl)
           ELSE regBodyLoop(s, start, p + clen, tpl)

\* scanRegularExpression(start), Pos being just after the '/':
\* <<>> is std::nullopt, <<l>> a token and the fields it leaves.
scanRegularExpression(s, start, pos, tpl) ==
  LET firstLen == regFirstCharLength(s, pos)
  IN  IF firstLen = 0 THEN <<>> ELSE <<regBodyLoop(s, start, pos + firstLen, tpl)>>

KeywordTable ==
  <<<<<<"p","r","i","n","t">>, "Tok_Print">>,
    <<<<"b","r","e","a","k">>, "Tok_Break">>,
    <<<<"d","o">>, "Tok_Do">>,
    <<<<"i","n","s","t","a","n","c","e","o","f">>, "Tok_Instanceof">>,
    <<<<"t","y","p","e","o","f">>, "Tok_Typeof">>,
    <<<<"c","a","s","e">>, "Tok_Case">>,
    <<<<"e","l","s","e">>, "Tok_Else">>,
    <<<<"n","e","w">>, "Tok_New">>,
    <<<<"v","a","r">>, "Tok_Var">>,
    <<<<"c","a","t","c","h">>, "Tok_Catch">>,
    <<<<"f","i","n","a","l","l","y">>, "Tok_Finally">>,
    <<<<"r","e","t","u","r","n">>, "Tok_Return">>,
    <<<<"v","o","i","d">>, "Tok_Void">>,
    <<<<"c","o","n","t","i","n","u","e">>, "Tok_Continue">>,
    <<<<"f","o","r">>, "Tok_For">>,
    <<<<"s","w","i","t","c","h">>, "Tok_Switch">>,
    <<<<"w","h","i","l","e">>, "Tok_While">>,
    <<<<"d","e","b","u","g","g","e","r">>, "Tok_Debugger">>,
    <<<<"f","u","n","c","t","i","o","n">>, "Tok_Function">>,
    <<<<"d","e","l","e","t","e">>, "Tok_Delete">>,
    <<<<"i","n">>, "Tok_In">>,
    <<<<"t","r","y">>, "Tok_Try">>,
    <<<<"d","e","f","a","u","l","t">>, "Tok_Default">>,
    <<<<"a","s">>, "Tok_As">>,
    <<<<"f","r","o","m">>, "Tok_From">>,
    <<<<"o","f">>, "Tok_Of">>,
    <<<<"y","i","e","l","d">>, "Tok_Yield">>,
    <<<<"y","i","e","l","d","*">>, "Tok_YieldStar">>,
    <<<<"c","l","a","s","s">>, "Tok_Class">>,
    <<<<"e","n","u","m">>, "Tok_Enum">>,
    <<<<"e","x","t","e","n","d","s">>, "Tok_Extends">>,
    <<<<"s","u","p","e","r">>, "Tok_Super">>,
    <<<<"c","o","n","s","t">>, "Tok_Const">>,
    <<<<"e","x","p","o","r","t">>, "Tok_Export">>,
    <<<<"i","m","p","o","r","t">>, "Tok_Import">>,
    <<<<"a","s","y","n","c">>, "Tok_Async">>,
    <<<<"a","w","a","i","t">>, "Tok_Await">>>>

StrictKeywordTable ==
  <<<<<<"i","m","p","l","e","m","e","n","t","s">>, "Tok_Implements">>,
    <<<<"p","r","i","v","a","t","e">>, "Tok_Private">>,
    <<<<"p","u","b","l","i","c">>, "Tok_Public">>,
    <<<<"i","n","t","e","r","f","a","c","e">>, "Tok_Interface">>,
    <<<<"p","a","c","k","a","g","e">>, "Tok_Package">>,
    <<<<"p","r","o","t","e","c","t","e","d">>, "Tok_Protected">>,
    <<<<"s","t","a","t","i","c">>, "Tok_Static">>>>

keywordIndex(txt) == {i \in 1..Len(KeywordTable) : KeywordTable[i][1] = txt}
strictKeywordIndex(txt) == {i \in 1..Len(StrictKeywordTable) : StrictKeywordTable[i][1] = txt}

\* The chain of comparisons `if (txt == "print") ... return Tok_Invalid`
identifierKind(txt, strict) ==
  IF keywordIndex(txt) # {} THEN KeywordTable[CHOOSE i \in keywordIndex(txt) : TRUE][2]
  ELSE IF strict /\ strictKeywordIndex(txt) # {}
       THEN StrictKeywordTable[CHOOSE i \in strictKeywordIndex(txt) : TRUE][2]
  ELSE IF txt = <<"l","e","t">> THEN (IF strict THEN "Tok_StrictLet" ELSE "Tok_NonStrictLet")
  ELSE IF txt = <<"n","u","l","l">> THEN "Tok_NullLiteral"
  ELSE IF txt = <<"t","r","u","e">> \/ txt = <<"f","a","l","s","e">> THEN "Tok_BooleanLiteral"
  ELSE "Tok_Invalid"

\* The identifier loop: the Pos it leaves.  A non-ASCII lead byte moves Pos
\* by the sequence length it announces, whatever is left of the source.
RECURSIVE identifierLoop(_, _)
identifierLoop(s, pos) ==
  IF pos >= Size(s) THEN pos
  ELSE IF At(s, pos) \in IdentChar THEN identifierLoop(s, pos + 1)
  ELSE IF At(s, pos) \in HighBit
       THEN IF isUtf8ZWNCorZWJ(s, pos) THEN identifierLoop(s, pos + 3)
            ELSE identifierLoop(s, pos + utf8SequenceLength(At(s, pos)))
  ELSE IF At(s, pos) = BSL /\ pos + 1 < Size(s) /\ At(s, pos + 1) = "u"
          /\ unicodeEscapeEnd(s, pos + 2) # -1
       THEN identifierLoop(s, unicodeEscapeEnd(s, pos + 2))
  ELSE pos

scanIdentifier(s, start, c, strict, tpl) ==
  LET idStart == start
      e   == identifierLoop(s, IF c = BSL THEN idStart ELSE start + 1)
      txt == Substr(s, idStart, e - idStart)
  IN  Lexed(makeToken(s, identifierKind(txt, strict), idStart, Len(txt), NoInt), e, tpl)

-----------------------------------------------------------------------------
(* Lexer: numbers *)

isDigit(ch) == ch \in Digit
isHexDigit(ch) == isHexDigitFragment(ch)
isDecDigit(ch) == ch \in Digit \/ ch = "_"

\* The run `while (p < Src.size() && Src[p] in allowed) ++p;`
RECURSIVE run(_, _, _)
run(s, p, allowed) ==
  IF p < Size(s) /\ At(s, p) \in allowed THEN run(s, p + 1, allowed) ELSE p

DigitValue(ch) == CHOOSE v \in 0..9 : DigitSeq[v + 1] = ch   \* ch - '0'

\* `for (i = numStart; i < Pos; ++i) { if (ch == '_') continue; val = val * 10 + (ch - '0'); }`
RECURSIVE integerValue(_, _, _, _)
integerValue(s, i, e, val) ==
  IF i >= e THEN val
  ELSE IF At(s, i) = "_" THEN integerValue(s, i + 1, e, val)
  ELSE integerValue(s, i + 1, e, val * 10 + DigitValue(At(s, i)))

HexRunChars == {ch \in Digit \cup Lower \cup Upper \cup {"_"} : isHexDigit(ch)}

\* A 0x / 0b / 0o literal that stops before the suffix 'n'
prefixedNumberWithoutSuffix(s, numStart, first, digits, bigKind, kind, tpl) ==
  LET pos == numStart + 2
  IN  IF ~(pos < Size(s) /\ At(s, pos) \in first)
      THEN Lexed(makeToken(s, "Tok_Integer", numStart, 1, <<0>>), numStart + 1, tpl)
      ELSE Lexed(makeToken(s, kind, numStart, run(s, pos, digits) - numStart, NoInt),
                 run(s, pos, digits), tpl)

\* A 0x / 0b / 0o literal: digits is what may follow, first what must come first.
prefixedNumber(s, numStart, first, digits, bigKind, kind, tpl) ==
  LET pos == numStart + 2
  IN  IF ~(pos < Size(s) /\ At(s, pos) \in first)
      THEN Lexed(makeToken(s, "Tok_Integer", numStart, 1, <<0>>), numStart + 1, tpl)
      ELSE LET p == run(s, pos, digits)
           IN  IF p < Size(s) /\ At(s, p) = "n"
               THEN Lexed(makeToken(s, bigKind, numStart, p + 1 - numStart, NoInt), p + 1, tpl)
               ELSE Lexed(makeToken(s, kind, numStart, p - numStart, NoInt), p, tpl)

\* The end of the decimal part: the token for the digits that were read,
\* Pos being p3; <<>> when the branch falls through to the code below it.
decimalToken(s, numStart, tpl, hasDigitsBeforeDot, isDecimal, p3) ==
  IF ~isDecimal /\ hasDigitsBeforeDot /\ p3 < Size(s) /\ At(s, p3) = "n"
  THEN <<Lexed(makeToken(s, "Tok_BigDecimalIntegerLiteral", numStart, p3 + 1 - numStart, NoInt),
               p3 + 1, tpl)>>
  ELSE IF isDecimal
  THEN <<Lexed(makeToken(s, "Tok_DecimalLiteral", numStart, p3 - numStart, NoInt), p3, tpl)>>
  ELSE IF hasDigitsBeforeDot
  THEN <<Lexed(makeToken(s, "Tok_Integer", numStart, p3 - numStart,
                         <<integerValue(s, numStart, p3, 0)>>), p3, tpl)>>
  ELSE <<>>

\* The exponent of the decimal part, Pos being p2 after the fraction
decimalExponent(s, numStart, tpl, hasDigitsBeforeDot, frac, p2) ==
  LET expPos0 == p2 + 1
      expPos == IF expPos0 < Size(s) /\ At(s, expPos0) \in {"+", "-"} THEN expPos0 + 1 ELSE expPos0
      hasExp == p2 < Size(s) /\ At(s, p2) \in {"e", "E"}
                /\ expPos < Size(s) /\ isDecDigit(At(s, expPos))
  IN  decimalToken(s, numStart, tpl, hasDigitsBeforeDot, frac \/ hasExp,
                   IF hasExp
                   THEN run(s, IF p2 + 1 < Size(s) /\ At(s, p2 + 1) \in {"+", "-"}
                               THEN p2 + 2 ELSE p2 + 1,
                            Digit \cup {"_"})
                   ELSE p2)

\* The fraction of the decimal part, Pos being p1 after the integer digits.
\* A '.' that neither follows nor precedes a digit is the dot punctuator.
decimalFraction(s, numStart, tpl, hasDigitsBeforeDot, p1) ==
  LET dot == p1 < Size(s) /\ At(s, p1) = "."
      frac == dot /\ p1 + 1 < Size(s) /\ isDigit(At(s, p1 + 1))
  IN  IF dot /\ ~frac /\ ~hasDigitsBeforeDot
      THEN <<Lexed(makeToken(s, "Tok_Dot", numStart, 1, NoInt), numStart + 1, tpl)>>
      ELSE decimalExponent(s, numStart, tpl, hasDigitsBeforeDot, frac,
                           IF frac THEN run(s, p1 + 1, Digit \cup {"_"}) ELSE p1)

\* The part of the number branch after the 0-prefixed forms; <<>> when the
\* branch falls through to the code below it (the leading '.' of ".5").
decimalNumber(s, numStart, c, tpl) ==
  decimalFraction(s, numStart, tpl, isDigit(c),
                  IF isDigit(c) THEN run(s, numStart + 1, Digit \cup {"_"}) ELSE numStart + 1)

\* The number branch, entered with c a digit, or a '.' that a digit follows.
scanNumber(s, start, c, strict, tpl) ==
  LET numStart == start
      pos == start + 1
      nx == At(s, pos)
  IN  IF c = "0" /\ pos < Size(s) /\ nx \in {"x", "X"}
      THEN <<prefixedNumber(s, numStart, HexRunChars, HexRunChars,
                            "Tok_BigHexIntegerLiteral", "Tok_HexIntegerLiteral", tpl)>>
      ELSE IF c = "0" /\ pos < Size(s) /\ nx \in {"b", "B"}
      THEN <<prefixedNumber(s, numStart, {"0", "1"}, {"0", "1", "_"},
                            "Tok_BigBinaryIntegerLiteral", "Tok_BinaryIntegerLiteral", tpl)>>
      ELSE IF c = "0" /\ pos < Size(s) /\ nx \in {"o", "O"}
      THEN <<prefixedNumber(s, numStart, OctDigit, OctDigit \cup {"_"},
                            "Tok_BigOctalIntegerLiteral", "Tok_OctalIntegerLiteral2", tpl)>>
      ELSE IF c = "0" /\ pos < Size(s) /\ ~strict /\ nx \in OctDigit
      THEN LET p == run(s, pos, OctDigit)
           IN  IF p < Size(s) /\ At(s, p) = "n"
               THEN <<Lexed(makeToken(s, "Tok_BigOctalIntegerLiteral", numStart, p + 1 - numStart, NoInt),
                            p + 1, tpl)>>
               ELSE <<Lexed(makeToken(s, "Tok_OctalIntegerLiteral", numStart, p - numStart, NoInt),
                            p, tpl)>>
      ELSE IF c = "0" /\ pos < Size(s) /\ nx \in Digit
      THEN <<Lexed(makeToken(s, "Tok_Integer", numStart, 1, <<0>>), numStart + 1, tpl)>>
      ELSE decimalNumber(s, numStart, c, tpl)

-----------------------------------------------------------------------------
(* Lexer: string literals *)

\* An invalid escape: the token of badLen bytes from start, Pos = start + badLen.
badEscape(s, start, badLen, tpl) ==
  Lexed(makeToken(s, "Tok_Invalid", start, badLen, NoInt), start + badLen, tpl)

\* The string loop; p is the scan position, start the opening quote.
RECURSIVE stringLoop(_, _, _, _, _)
stringLoop(s, start, quote, p, tpl) ==
  IF p >= Size(s)
  THEN Lexed(makeToken(s, "Tok_Invalid", start, p - start, NoInt), p, tpl)
  ELSE LET ch == At(s, p)
           p1 == p + 1
       IN  IF ch = quote
           THEN Lexed(makeToken(s, "Tok_StringLiteral", start, p1 - start, NoInt), p1, tpl)
           ELSE IF ch = BSL
           THEN LET lc == lineContinuationLength(s, p1 - 1)
                    esc == At(s, p1)
                IN  IF lc # 0 THEN stringLoop(s, start, quote, p1 + (lc - 1), tpl)
                    ELSE IF p1 >= Size(s) THEN stringLoop(s, start, quote, p1, tpl)
                    ELSE IF esc = "x"
                    THEN LET q == p1 + 1
                         IN  IF q + 1 < Size(s) /\ isHexDigitFragment(At(s, q))
                                /\ isHexDigitFragment(At(s, q + 1))
                             THEN stringLoop(s, start, quote, q + 2, tpl)
                             ELSE badEscape(s, start, (q + 1) - start, tpl)
                    ELSE IF esc = "u"
                    THEN LET q == p1 + 1
                         IN  IF unicodeEscapeEnd(s, q) # -1
                             THEN stringLoop(s, start, quote, unicodeEscapeEnd(s, q), tpl)
                             ELSE badEscape(s, start, (q + 1) - start, tpl)
                    ELSE IF esc = "0" /\ p1 + 1 < Size(s) /\ At(s, p1 + 1) \in Digit
                    THEN badEscape(s, start, p1 + 1 - start, tpl)
                    ELSE IF isSingleEscapeChar(esc) THEN stringLoop(s, start, quote, p1 + 1, tpl)
                    ELSE IF esc \in (Digit \ {"0"}) THEN stringLoop(s, start, quote, p1 + 1, tpl)
                    ELSE IF esc = CR \/ esc = LF \/ isUtf8LineSeparator(s, p1)
                    THEN badEscape(s, start, p1 + 1 - start, tpl)
                    ELSE stringLoop(s, start, quote, p1 + 1, tpl)
           ELSE IF lineTerminatorLength(s, p1 - 1) # 0
           THEN Lexed(makeToken(s, "Tok_Invalid", start, p1 - start, NoInt), p1, tpl)
           ELSE stringLoop(s, start, quote, p1, tpl)

\* The position of the next byte c from p on, Size(s) when there is none
RECURSIVE nextQuote(_, _, _)
nextQuote(s, p, c) == IF p >= Size(s) \/ At(s, p) = c THEN p ELSE nextQuote(s, p + 1, c)
\* A scan that runs to the next quote whatever stands before it
scanStringToQuote(s, start, c, tpl) ==
  IF nextQuote(s, start + 1, c) >= Size(s)
  THEN Lexed(makeToken(s, "Tok_Invalid", start, Size(s) - start, NoInt), Size(s), tpl)
  ELSE Lexed(makeToken(s, "Tok_StringLiteral", start, nextQuote(s, start + 1, c) + 1 - start, NoInt),
             nextQuote(s, start + 1, c) + 1, tpl)

scanString(s, start, c, tpl) == stringLoop(s, start, c, start + 1, tpl)

-----------------------------------------------------------------------------
(* Lexer: template strings *)

\* After the template loop: "ran to EOF or found delimiter at Pos".
templateEnd(s, pos, atomStart) ==
  IF pos < Size(s) /\ At(s, pos) = BQ
  THEN Lexed(makeToken(s, "Tok_BackTick", pos, 1, NoInt), pos + 1, FALSE)
  ELSE IF pos > atomStart
       THEN Lexed(makeToken(s, "Tok_TemplateStringAtom", atomStart, pos - atomStart, NoInt), pos, TRUE)
  ELSE Lexed(makeToken(s, "Tok_Invalid", atomStart, 0, NoInt), pos, TRUE)

\* An invalid escape inside an atom: Pos += 2, the atom so far is Tok_Invalid.
templateInvalid(s, pos, atomStart) ==
  Lexed(makeToken(s, "Tok_Invalid", atomStart, pos + 2 - atomStart, NoInt), pos + 2, TRUE)

\* The loop `while (Pos < Src.size())` of the InTemplateString branch.
RECURSIVE templateLoop(_, _, _)
templateLoop(s, pos, atomStart) ==
  IF pos >= Size(s) THEN templateEnd(s, pos, atomStart)
  ELSE IF At(s, pos) = BSL
  THEN LET lc  == lineContinuationLength(s, pos)
           esc == At(s, pos + 1)
           q   == pos + 2
       IN  IF pos + 1 >= Size(s) THEN templateLoop(s, pos + 1, atomStart)
           ELSE IF lc # 0 THEN templateLoop(s, pos + lc, atomStart)
           ELSE IF esc = "x"
           THEN IF q + 1 < Size(s) /\ isHexDigitFragment(At(s, q)) /\ isHexDigitFragment(At(s, q + 1))
                THEN templateLoop(s, q + 2, atomStart)
                ELSE templateInvalid(s, pos, atomStart)
           ELSE IF esc = "u"
           THEN IF unicodeEscapeEnd(s, q) # -1
                THEN templateLoop(s, unicodeEscapeEnd(s, q), atomStart)
                ELSE templateInvalid(s, pos, atomStart)
           ELSE IF esc = "0"
           THEN IF pos + 2 < Size(s) /\ At(s, pos + 2) \in Digit
                THEN templateInvalid(s, pos, atomStart)
                ELSE templateLoop(s, pos + 2, atomStart)
           ELSE IF esc \in (Digit \ {"0"}) THEN templateLoop(s, pos + 2, atomStart)
           ELSE IF isSingleEscapeChar(esc) THEN templateLoop(s, pos + 2, atomStart)
           ELSE IF esc = CR \/ esc = LF \/ isUtf8LineSeparator(s, pos + 1)
           THEN templateInvalid(s, pos, atomStart)
           ELSE templateLoop(s, pos + 2, atomStart)
  ELSE IF At(s, pos) = BQ
  THEN IF pos > atomStart
       THEN Lexed(makeToken(s, "Tok_TemplateStringAtom", atomStart, pos - atomStart, NoInt), pos, TRUE)
       ELSE templateEnd(s, pos, atomStart)
  ELSE IF At(s, pos) = "$" /\ pos + 1 < Size(s) /\ At(s, pos + 1) = "{"
  THEN IF pos > atomStart
       THEN Lexed(makeToken(s, "Tok_TemplateStringAtom", atomStart, pos - atomStart, NoInt), pos, TRUE)
       ELSE Lexed(makeToken(s, "Tok_TemplateStringStartExpression", pos, 2, NoInt), pos + 2, TRUE)
  ELSE templateLoop(s, pos + 1, atomStart)

-----------------------------------------------------------------------------
(* Lexer: punctuators *)

\* The cases of `switch (c)` that return a one-byte token whatever follows.
SingleCharKind ==
  [ch \in {BQ, "#", "[", "]", "(", ")", "{", "}", ";", ",", ":", "~"} |->
     CASE ch = BQ -> "Tok_BackTick"
       [] ch = "#" -> "Tok_Hashtag"
       [] ch = "[" -> "Tok_LBracket"
       [] ch = "]" -> "Tok_RBracket"
       [] ch = "(" -> "Tok_LParen"
       [] ch = ")" -> "Tok_RParen"
       [] ch = "{" -> "Tok_LBrace"
       [] ch = "}" -> "Tok_RBrace"
       [] ch = ";" -> "Tok_Semi"
       [] ch = "," -> "Tok_Comma"
       [] ch = ":" -> "Tok_Colon"
       [] ch = "~" -> "Tok_BitNot"]

\* The cases that look ahead: for each first byte, the continuations the
\* code tests, in the order it tests them, each with the kind and the length
\* it passes to makeToken; the last entry of each list is the empty
\* continuation.  Pos moves past the continuation.  (For '>' followed by
\* '>>>' the code moves Pos by three and makes a token of length three.)
OperatorCases ==
  [ch \in {"=", "+", ".", "?", "-", "!", "*", "%", ">", "&", "^", "|", "<"} |->
     CASE ch = "=" -> << <<<<">">>, "Tok_Arrow", 2>>, <<<<"=","=">>, "Tok_IdentityEquals", 3>>,
                         <<<<"=">>, "Tok_Equals", 2>>, <<<<>>, "Tok_Assign", 1>> >>
       [] ch = "+" -> << <<<<"=">>, "Tok_PlusAssign", 2>>, <<<<"+">>, "Tok_PlusPlus", 2>>,
                         <<<<>>, "Tok_Plus", 1>> >>
       [] ch = "." -> << <<<<".",".">>, "Tok_Ellipsis", 3>>, <<<<>>, "Tok_Dot", 1>> >>
       [] ch = "?" -> << <<<<"?","=">>, "Tok_NullishCoalescingAssign", 3>>, <<<<"?">>, "Tok_NullCoalesce", 2>>,
                         <<<<".">>, "Tok_QuestionDot", 2>>, <<<<>>, "Tok_Question", 1>> >>
       [] ch = "-" -> << <<<<"=">>, "Tok_MinusAssign", 2>>, <<<<"-">>, "Tok_MinusMinus", 2>>,
                         <<<<>>, "Tok_Minus", 1>> >>
       [] ch = "!" -> << <<<<"=","=">>, "Tok_IdentityNotEquals", 3>>, <<<<"=">>, "Tok_NotEquals", 2>>,
                         <<<<>>, "Tok_Not", 1>> >>
       [] ch = "*" -> << <<<<"*","=">>, "Tok_PowerAssign", 3>>, <<<<"*">>, "Tok_Power", 2>>,
                         <<<<"=">>, "Tok_MultiplyAssign", 2>>, <<<<>>, "Tok_Multiply", 1>> >>
       [] ch = "%" -> << <<<<"=">>, "Tok_ModulusAssign", 2>>, <<<<>>, "Tok_Modulus", 1>> >>
       [] ch = ">" -> << <<<<">",">","=">>, "Tok_RightShiftLogicalAssign", 4>>,
                         <<<<">",">",">">>, "Tok_RightShiftLogical", 3>>,
                         <<<<">","=">>, "Tok_RightShiftArithmeticAssign", 3>>,
                         <<<<">">>, "Tok_RightShiftArithmetic", 2>>,
                         <<<<"=">>, "Tok_GreaterThanEquals", 2>>, <<<<>>, "Tok_MoreThan", 1>> >>
       [] ch = "&" -> << <<<<"&">>, "Tok_LogicalAnd", 2>>, <<<<"=">>, "Tok_BitAndAssign", 2>>,
                         <<<<>>, "Tok_BitAnd", 1>> >>
       [] ch = "^" -> << <<<<"=">>, "Tok_BitXorAssign", 2>>, <<<<>>, "Tok_BitXor", 1>> >>
       [] ch = "|" -> << <<<<"|">>, "Tok_LogicalOr", 2>>, <<<<"=">>, "Tok_BitOrAssign", 2>>,
                         <<<<>>, "Tok_BitOr", 1>> >>
       [] ch = "<" -> << <<<<"<","=">>, "Tok_LeftShiftArithmeticAssign", 3>>,
                         <<<<"<">>, "Tok_LeftShiftArithmetic", 2>>,
                         <<<<"=">>, "Tok_LessThanEquals", 2>>, <<<<>>, "Tok_LessThan", 1>> >>]

\* `Pos + n - 1 < Src.size() && Src[Pos] == w[1] && ... && Src[Pos + n - 1] == w[n]`
follows(s, pos, w) ==
  /\ pos + Len(w) - 1 < Size(s) \/ Len(w) = 0
  /\ \A i \in 1..Len(w) : At(s, pos + i - 1) = w[i]

\* A scan that takes the first byte alone, whatever follows it
scanOperatorOneByte(s, start, c, tpl) ==
  LET cases == OperatorCases[c]
  IN  Lexed(makeToken(s, cases[Len(cases)][2], start, 1, NoInt), start + 1, tpl)

\* The first case of the list that matches after the first byte.
scanOperator(s, start, c, tpl) ==
  LET cases == OperatorCases[c]
      i == CHOOSE k \in 1..Len(cases) :
             /\ follows(s, start + 1, cases[k][1])
             /\ \A j \in 1..(k - 1) : ~follows(s, start + 1, cases[j][1])
  IN  Lexed(makeToken(s, cases[i][2], start, cases[i][3], NoInt),
            start + 1 + Len(cases[i][1]), tpl)

\* case '/': a regular expression where IsRegexPossible() allows one and
\* one scans, else '/=' or '/'.  Pos is already past the '/'.
divideOr(re, s, start, tpl) ==
  IF re # <<>> THEN re[1]
  ELSE IF start + 1 < Size(s) /\ At(s, start + 1) = "="
       THEN Lexed(makeToken(s, "Tok_DivideAssign", start, 2, NoInt), start + 2, tpl)
  ELSE Lexed(makeToken(s, "Tok_Divide", start, 1, NoInt), start + 1, tpl)

scanSlash(s, start, tpl) ==
  divideOr(IF IsRegexPossible(s, start + 1)
           THEN scanRegularExpression(s, start, start + 1, tpl) ELSE <<>>,
           s, start, tpl)

scanPunctuator(s, start, c, tpl) ==
  IF c \in DOMAIN SingleCharKind
  THEN Lexed(makeToken(s, SingleCharKind[c], start, 1, NoInt), start + 1, tpl)
  ELSE IF c \in DOMAIN OperatorCases THEN scanOperator(s, start, c, tpl)
  ELSE IF c = "/" THEN scanSlash(s, start, tpl)
  ELSE Lexed(makeToken(s, "Tok_Invalid", start, 1, NoInt), start + 1, tpl)

-----------------------------------------------------------------------------
(* Lexer::nextToken *)

\* What follows the number branch: its token if it returned one, else the
\* string and punctuator branches
numberOr(num, s, start, c, tpl) ==
  IF num # <<>> THEN num[1]
  ELSE IF c = DQ \/ c = SQ THEN scanString(s, start, c, tpl)
  ELSE scanPunctuator(s, start, c, tpl)

\* nextToken() from `size_t start = Pos;` on, the hidden channel skipped
tokenAt(s, start, tpl, strict) ==
  LET c == At(s, start)
  IN  IF start >= Size(s) THEN Lexed(makeToken(s, "Tok_EOF", start, 0, NoInt), start, tpl)
      ELSE IF tpl THEN templateLoop(s, start, start)
      ELSE IF c \in Lower \cup Upper \cup {"_", "$", BSL} \cup HighBit
           THEN scanIdentifier(s, start, c, strict, tpl)
      ELSE numberOr(IF isDigit(c) \/ (c = "." /\ start + 1 < Size(s) /\ isDigit(At(s, start + 1)))
                    THEN scanNumber(s, start, c, strict, tpl)
                    ELSE <<>>,
                    s, start, c, tpl)

nextToken(s, pos0, tpl, strict) == tokenAt(s, skipWhitespace(s, pos0), tpl, strict)

-----------------------------------------------------------------------------
(* Parser: the object and its results *)

(***************************************************************************)
(* A parser object st is a record of Parser::Cur and Parser::PrevTokenEnd, *)
(* of the fields of its lexer L (Src, StrictMode, Pos, InTemplateString),  *)
(* of LastTypeParsed, and of what an observer of the process sees: halt    *)
(* (whether control has left the parser by an exception, or is caught in a *)
(* loop that cannot end), adv (the number of advance() calls), cerr and    *)
(* cout (whether the stream was written to).                               *)
(*                                                                         *)
(* A production returning bool gives [st, ok]; one returning               *)
(* std::optional<ParseResult> gives [st, r], r being <<>> for std::nullopt *)
(* and <<result>> otherwise.  A ParseResult is [ok, error, stmt], stmt     *)
(* being <<>> for nullptr and <<node>> for a tree.                         *)
(***************************************************************************)

B(st, ok) == [st |-> st, ok |-> ok]
R(st, r) == [st |-> st, r |-> r]
nullopt == <<>>
nullptr == <<>>

ParseResult(ok, err, stmt) == [ok |-> ok, error |-> err, stmt |-> stmt]
\* error() as it would be if it dropped its message
errorWithoutMessage(msg) == ParseResult(FALSE, "", nullptr)
error(msg) == ParseResult(FALSE, msg, nullptr)        \* Parser::error
Success == ParseResult(TRUE, "", nullptr)             \* ParseResult{true, std::string(), nullptr}

\* The AST nodes the parser builds
LiteralExpr(value) == [node |-> "LiteralExpr", value |-> value]
PrintStmt(args, origin) == [node |-> "PrintStmt", args |-> args, origin |-> origin]
Program(statements) == [node |-> "Program", statements |-> statements]

\* Cur.kind as the running code tests it.  Once control has left the parser
\* nothing more is tested: every production and every loop then ends as it
\* does at the end of the input, and what it returns is never looked at.
K(st) == IF st.halt # "none" THEN "Tok_EOF" ELSE st.Cur.kind

(***************************************************************************)
(* The member functions of the parser call one another in cycles.  A call  *)
(* of the member function f on the parser object st is written             *)
(* Call("f", st), the operator Call being defined once all of them are.    *)
(***************************************************************************)
RECURSIVE Call(_, _)

\* void advance() { PrevTokenEnd = Cur.pos + Cur.text.size(); Cur = L.nextToken(); }
\* An exception thrown by nextToken() leaves the parser through every
\* caller: nothing in the program catches it.
advanceTo(st, l) ==
  IF l.tok.kind = OutOfRange
  THEN [st EXCEPT !.halt = "thrown", !.adv = @ + 1,
                  !.PrevTokenEnd = st.Cur.pos + Len(st.Cur.text)]
  ELSE [st EXCEPT !.PrevTokenEnd = st.Cur.pos + Len(st.Cur.text),
                  !.Cur = l.tok, !.Pos = l.Pos,
                  !.InTemplateString = l.InTemplateString,
                  !.adv = @ + 1]

advance(st) ==
  IF st.halt # "none" THEN st
  ELSE advanceTo(st, nextToken(st.Src, st.Pos, st.InTemplateString, st.StrictMode))

Cerr(st) == [st EXCEPT !.cerr = TRUE]    \* std::cerr << ...
Cout(st) == [st EXCEPT !.cout = TRUE]    \* std::cout << ...

\* An iteration of a loop that leaves the parser object as it found it, in
\* a loop whose other variables do not change either, repeats for ever.
Same(st0, st1) ==
  /\ st1.halt = "none"
  /\ st1.Cur = st0.Cur /\ st1.Pos = st0.Pos /\ st1.PrevTokenEnd = st0.PrevTokenEnd
  /\ st1.InTemplateString = st0.InTemplateString
  /\ st1.LastTypeParsed = st0.LastTypeParsed
Hang(st) == [st EXCEPT !.halt = "hung"]

\* The loop below as it would be without the advance() in its body
skipUntilWithoutAdvance(st, stops, log) ==
  IF K(st) \in stops \cup {"Tok_EOF"} THEN st ELSE Hang(IF log THEN Cerr(st) ELSE st)

\* The loop `while (Cur.kind != k1 && ... && Cur.kind != Tok_EOF) advance();`
\* for the kinds in stops; log tells whether the body writes to std::cerr.
RECURSIVE skipUntil(_, _, _)
skipUntil(st, stops, log) ==
  IF K(st) \in stops \cup {"Tok_EOF"} THEN st
  ELSE LET n == Call("advance", IF log THEN Cerr(st) ELSE st)
       IN  IF Same(st, n) THEN Hang(n) ELSE skipUntil(n, stops, log)

\* bool Parser::parseEos()
parseEos(st) ==
  IF K(st) = "Tok_Semi" THEN B(Call("advance", st), TRUE)
  ELSE IF K(st) = "Tok_EOF" THEN B(st, TRUE)
  ELSE IF K(st) = "Tok_RBrace" THEN B(st, TRUE)
  ELSE IF st.PrevTokenEnd # 0
          /\ ContainsLineTerminatorBetween(st.Src, st.PrevTokenEnd, st.Cur.pos)
       THEN B(st, TRUE)
  ELSE B(st, FALSE)

Err(st, msg) == R(st, <<error(msg)>>)      \* return error(msg);
Done(st) == R(st, <<Success>>)              \* return ParseResult{true, std::string(), nullptr};
None(st) == R(st, nullopt)                  \* return std::nullopt;
Restore(st, save) == [st EXCEPT !.Cur = save]   \* Cur = save;

-----------------------------------------------------------------------------
(* Parser: the productions *)

\* bool Parser::parseIdentifier()
parseIdentifier(st) ==
  IF K(st) \in {"Tok_Identifier", "Tok_NonStrictLet", "Tok_StrictLet", "Tok_Async",
                "Tok_As", "Tok_From", "Tok_Yield", "Tok_Of"}
  THEN B(Call("advance", st), TRUE)
  ELSE B(st, FALSE)

KeywordKinds ==
  {"Tok_Break", "Tok_Do", "Tok_Instanceof", "Tok_Typeof", "Tok_Case", "Tok_Else",
   "Tok_New", "Tok_Var", "Tok_Catch", "Tok_Finally", "Tok_Return", "Tok_Void",
   "Tok_Continue", "Tok_For", "Tok_Switch", "Tok_While", "Tok_Debugger",
   "Tok_Function", "Tok_This", "Tok_With", "Tok_Default", "Tok_If", "Tok_Throw",
   "Tok_Delete", "Tok_In", "Tok_Try", "Tok_Class", "Tok_Enum", "Tok_Extends",
   "Tok_Super", "Tok_Const", "Tok_Export", "Tok_Import", "Tok_Implements",
   "Tok_Private", "Tok_Public", "Tok_Interface", "Tok_Package", "Tok_Protected",
   "Tok_Static", "Tok_Yield", "Tok_YieldStar", "Tok_Await", "Tok_As", "Tok_From",
   "Tok_Of", "Tok_Async", "Tok_Any", "Tok_Number", "Tok_Never", "Tok_Boolean",
   "Tok_String", "Tok_Unique", "Tok_Symbol", "Tok_Undefined", "Tok_Object"}

\* bool Parser::parseKeyword()
parseKeyword(st) ==
  IF K(st) \in KeywordKinds THEN B(Call("advance", st), TRUE) ELSE B(st, FALSE)

\* bool Parser::parseReservedWord()
parseReservedWord(st) ==
  IF K(st) \in {"Tok_NullLiteral", "Tok_BooleanLiteral", "Tok_Any", "Tok_Number",
                "Tok_Never", "Tok_String", "Tok_Unique", "Tok_Symbol",
                "Tok_Undefined", "Tok_Object"}
  THEN B(Call("advance", st), TRUE)
  ELSE Call("parseKeyword", st)

\* bool Parser::parseIdentifierName(): parseIdentifier() has consumed the
\* identifier when it returns true, and advance() is called once more.
parseIdentifierName(st) ==
  LET i == Call("parseIdentifier", st)
  IN  IF i.ok THEN B(Call("advance", i.st), TRUE) ELSE Call("parseReservedWord", i.st)

\* bool Parser::parseImportedBinding()
parseImportedBinding(st) ==
  IF K(st) \in {"Tok_Yield", "Tok_Await"} THEN B(Call("advance", st), TRUE)
  ELSE Call("parseIdentifierName", st)

\* bool Parser::parseAliasName()
parseAliasName(st) ==
  LET a == Call("parseIdentifierName", st)
  IN  IF ~a.ok THEN B(a.st, FALSE)
      ELSE IF K(a.st) = "Tok_As" THEN Call("parseIdentifierName", Call("advance", a.st))
      ELSE B(a.st, TRUE)

\* bool Parser::parseImportDefault()
parseImportDefault(st) ==
  LET save == st.Cur
      a == Call("parseAliasName", st)
  IN  IF ~a.ok THEN B(a.st, FALSE)
      ELSE IF K(a.st) # "Tok_Comma" THEN B(Restore(a.st, save), FALSE)
      ELSE B(Call("advance", a.st), TRUE)

\* bool Parser::parseImportNamespace()
parseImportNamespace(st) ==
  LET a == IF K(st) = "Tok_Multiply" THEN B(Call("advance", st), TRUE) ELSE Call("parseIdentifierName", st)
  IN  IF ~a.ok THEN B(a.st, FALSE)
      ELSE IF K(a.st) = "Tok_As" THEN Call("parseIdentifierName", Call("advance", a.st))
      ELSE B(a.st, TRUE)

\* bool Parser::parseImportFrom()
parseImportFrom(st) ==
  IF K(st) # "Tok_From" THEN B(st, FALSE)
  ELSE LET s1 == Call("advance", st)
       IN  IF K(s1) # "Tok_StringLiteral" THEN B(s1, FALSE)
           ELSE B(parseEos(Call("advance", s1)).st, TRUE)

\* bool Parser::parseModuleExportName()
parseModuleExportName(st) ==
  IF K(st) = "Tok_StringLiteral" THEN B(Call("advance", st), TRUE) ELSE Call("parseIdentifierName", st)

\* bool Parser::parseExportAliasName()
parseExportAliasName(st) ==
  LET a == Call("parseModuleExportName", st)
  IN  IF ~a.ok THEN B(a.st, FALSE)
      ELSE IF K(a.st) = "Tok_As" THEN Call("parseModuleExportName", Call("advance", a.st))
      ELSE B(a.st, TRUE)

\* bool Parser::parseImportAliasName()
parseImportAliasName(st) ==
  LET a == Call("parseModuleExportName", st)
  IN  IF ~a.ok THEN B(a.st, FALSE)
      ELSE IF K(a.st) = "Tok_As" THEN Call("parseImportedBinding", Call("advance", a.st))
      ELSE B(a.st, TRUE)

\* The loop of parseExportModuleItems (export = TRUE) and of
\* parseImportModuleItems: the state at the loop's exit, ok = FALSE when the
\* function returns false from inside the loop.
RECURSIVE moduleItemsLoop(_, _)
moduleItemsLoop(st, export) ==
  IF K(st) \in {"Tok_RBrace", "Tok_EOF"} THEN B(st, TRUE)
  ELSE LET a == IF export THEN Call("parseExportAliasName", st) ELSE Call("parseImportAliasName", st)
       IN  IF ~a.ok THEN B(a.st, FALSE)
           ELSE IF K(a.st) = "Tok_Comma"
                THEN LET s1 == Call("advance", a.st)
                     IN  IF K(s1) = "Tok_RBrace" THEN B(s1, TRUE)
                         ELSE moduleItemsLoop(s1, export)
           ELSE B(a.st, TRUE)

moduleItems(st, export) ==
  IF K(st) # "Tok_LBrace" THEN B(st, FALSE)
  ELSE LET l == moduleItemsLoop(Call("advance", st), export)
       IN  IF ~l.ok THEN l
           ELSE IF K(l.st) # "Tok_RBrace" THEN B(l.st, FALSE)
           ELSE B(Call("advance", l.st), TRUE)

\* bool Parser::parseExportModuleItems()
parseExportModuleItems(st) == moduleItems(st, TRUE)

\* bool Parser::parseImportModuleItems()
parseImportModuleItems(st) == moduleItems(st, FALSE)

\* bool Parser::parseImportFromBlock()
parseImportFromBlock(st) ==
  IF K(st) = "Tok_StringLiteral" THEN parseEos(Call("advance", st))
  ELSE LET saved == st.Cur
           d  == Call("parseImportDefault", st)
           s1 == IF d.ok THEN d.st ELSE Restore(d.st, saved)
           m  == IF K(s1) = "Tok_Multiply" THEN Call("parseImportNamespace", s1)
                 ELSE IF K(s1) = "Tok_LBrace" THEN Call("parseImportModuleItems", s1)
                 ELSE Call("parseIdentifierName", s1)
       IN  IF ~m.ok THEN B(m.st, FALSE) ELSE Call("parseImportFrom", m.st)

\* std::optional<ParseResult> Parser::parseImportStatement()
parseImportStatement(st) ==
  IF K(st) # "Tok_Import" THEN None(st)
  ELSE LET b == Call("parseImportFromBlock", Call("advance", st))
       IN  IF ~b.ok THEN Err(b.st, "invalid import statement") ELSE Done(b.st)

\* bool Parser::parseExportFromBlock()
parseExportFromBlock(st) ==
  LET saved == st.Cur
      n  == Call("parseImportNamespace", st)
      f  == Call("parseImportFrom", n.st)
      s1 == IF n.ok THEN Restore(f.st, saved) ELSE n.st
      m  == Call("parseExportModuleItems", s1)
      g  == Call("parseImportFrom", m.st)
  IN  IF n.ok /\ f.ok THEN B(f.st, TRUE)
      ELSE IF ~m.ok THEN B(m.st, FALSE)
      ELSE IF g.ok THEN B(g.st, TRUE)
      ELSE parseEos(g.st)

\* An export statement that takes no token for the expression after default
parseExportStatementWithoutExpression(st) ==
  IF K(st) # "Tok_Export" THEN None(st)
  ELSE LET s1 == Call("advance", st)
           e1 == parseEos(Call("advance", s1))
       IN  IF K(s1) # "Tok_Default" THEN Err(s1, "invalid export statement")
           ELSE IF e1.ok THEN Done(e1.st)
           ELSE Err(e1.st, "expected end of export default")

\* std::optional<ParseResult> Parser::parseExportStatement()
parseExportStatement(st) ==
  IF K(st) # "Tok_Export" THEN None(st)
  ELSE LET s1 == Call("advance", st)
       IN  IF K(s1) = "Tok_Default"
           THEN LET e1 == parseEos(Call("advance", s1))
                    e2 == parseEos(Call("advance", e1.st))
                IN  IF e1.ok THEN Done(e1.st)
                    ELSE IF ~e2.ok THEN Err(e2.st, "expected end of export default")
                    ELSE Done(e2.st)
           ELSE LET b == Call("parseExportFromBlock", s1)
                    d == Call("parseDeclaration", b.st)
                IN  IF b.ok THEN Done(b.st)
                    ELSE IF d.r # nullopt THEN R(parseEos(d.st).st, d.r)
                    ELSE Err(d.st, "invalid export statement")

\* The argument loop of parsePrintStatement
RECURSIVE printArguments(_, _, _, _)
printArguments(st, args, expectArg, printKind) ==
  IF K(st) = "Tok_EOF" THEN R(st, <<ParseResult(TRUE, "", <<PrintStmt(args, printKind)>>)>>)
  ELSE IF K(st) = "Tok_RParen"
       THEN R(Call("advance", st), <<ParseResult(TRUE, "", <<PrintStmt(args, printKind)>>)>>)
  ELSE IF ~expectArg
       THEN IF K(st) = "Tok_Comma" THEN printArguments(Call("advance", st), args, TRUE, printKind)
            ELSE Err(st, "expected ',' between print arguments")
  ELSE IF K(st) = "Tok_StringLiteral"
       THEN LET lit == st.Cur.text
                n   == Len(lit)
                stripped == IF n >= 2 /\ ((lit[1] = DQ /\ lit[n] = DQ) \/ (lit[1] = SQ /\ lit[n] = SQ))
                            THEN SubSeq(lit, 2, n - 1) ELSE lit
            IN  printArguments(Call("advance", st), Append(args, LiteralExpr(stripped)), FALSE, printKind)
  ELSE IF K(st) \in {"Tok_Number", "Tok_Integer"}
       THEN printArguments(Call("advance", st), Append(args, LiteralExpr(st.Cur.text)), FALSE, printKind)
  ELSE IF K(st) = "Tok_Identifier"
       THEN printArguments(Call("advance", st), Append(args, LiteralExpr(st.Cur.text)), FALSE, printKind)
  ELSE Err(st, "unsupported print argument")

PrintKinds == {"Tok_Print", "Tok_ConsoleLog", "Tok_ConsoleError", "Tok_ConsoleWarn",
               "Tok_ConsoleInfo", "Tok_ConsoleSuccess"}

\* std::optional<ParseResult> Parser::parsePrintStatement()
parsePrintStatement(st) ==
  IF K(st) \notin PrintKinds THEN None(st)
  ELSE LET printKind == st.Cur.kind
           s1 == Call("advance", st)
       IN  IF K(s1) # "Tok_LParen" THEN Err(s1, "expected '(');")
           ELSE printArguments(Call("advance", s1), <<>>, TRUE, printKind)

\* std::optional<ParseResult> Parser::parseBlock()
parseBlock(st) ==
  IF K(st) # "Tok_LBrace" THEN None(st)
  ELSE LET s1 == Call("advance", st)
           sl == Call("parseStatementList", s1)
       IN  IF K(s1) = "Tok_RBrace" THEN Done(Call("advance", s1))
           ELSE IF sl.r # nullopt
                THEN IF K(sl.st) # "Tok_RBrace" THEN Err(sl.st, "expected '}'")
                     ELSE R(Call("advance", sl.st), sl.r)
           ELSE Err(sl.st, "invalid block contents")

\* The loop `while (true)` of parseStatementList; last is the local of that name.
RECURSIVE statementListLoop(_, _)
statementListLoop(st, last) ==
  LET stmt == Call("parseStatement", st)
  IN  IF stmt.r = nullopt THEN R(stmt.st, last)
      ELSE IF K(stmt.st) \in {"Tok_RBrace", "Tok_EOF"} THEN R(stmt.st, stmt.r)
      ELSE IF Same(st, stmt.st) THEN R(Hang(stmt.st), stmt.r)
      ELSE statementListLoop(stmt.st, stmt.r)

\* std::optional<ParseResult> Parser::parseStatementList()
parseStatementList(st) == statementListLoop(st, nullopt)

\* std::optional<ParseResult> Parser::parseEmptyStatement()
parseEmptyStatement(st) ==
  IF K(st) # "Tok_Semi" THEN None(st) ELSE Done(Call("advance", st))

\* std::optional<ParseResult> Parser::handleOptionalHashBang()
handleOptionalHashBang(st) ==
  IF K(st) # "Tok_Hashtag" THEN None(st)
  ELSE LET s1 == Call("advance", st)
       IN  IF K(s1) = "Tok_EOF" THEN Done(s1) ELSE None(s1)

\* The loop `while (Cur.kind == Tok_Comma)` of parseExpressionSequence
RECURSIVE expressionSequenceLoop(_)
expressionSequenceLoop(st) ==
  IF K(st) # "Tok_Comma" THEN B(st, TRUE)
  ELSE LET e == Call("parseSingleExpression", Call("advance", st))
       IN  IF ~e.ok THEN B(e.st, FALSE) ELSE Call("expressionSequenceLoop", e.st)

\* bool Parser::parseExpressionSequence()
parseExpressionSequence(st) ==
  LET e == Call("parseSingleExpression", st)
  IN  IF ~e.ok THEN B(e.st, FALSE) ELSE Call("expressionSequenceLoop", e.st)

\* std::optional<ParseResult> Parser::parseExpressionStatement()
parseExpressionStatement(st) ==
  LET decl == IF K(st) \in {"Tok_Class", "Tok_Function", "Tok_Var", "Tok_NonStrictLet",
                            "Tok_StrictLet", "Tok_Const"}
              THEN Call("parseDeclaration", st) ELSE None(st)
      s1   == decl.st
      save == s1.Cur
      e    == Call("parseExpressionSequence", s1)
  IN  IF decl.r # nullopt THEN decl
      ELSE IF K(s1) \in {"Tok_LBrace", "Tok_Function"} THEN None(s1)
      ELSE IF ~e.ok THEN None(Restore(e.st, save))
      ELSE Done(parseEos(e.st).st)

\* std::optional<ParseResult> Parser::parseIfStatement()
parseIfStatement(st) ==
  IF K(st) # "Tok_If" THEN None(st)
  ELSE LET s1 == Call("advance", st)
           e  == Call("parseExpressionSequence", Call("advance", s1))
           stmt == Call("parseStatement", Call("advance", e.st))
           els  == Call("parseStatement", Call("advance", stmt.st))
       IN  IF K(s1) # "Tok_LParen" THEN Err(s1, "expected '(' after if")
           ELSE IF ~e.ok THEN Err(e.st, "invalid if condition")
           ELSE IF K(e.st) # "Tok_RParen" THEN Err(e.st, "expected ')' after if condition")
           ELSE IF stmt.r = nullopt THEN Err(stmt.st, "invalid if body")
           ELSE IF K(stmt.st) # "Tok_Else" THEN stmt
           ELSE IF els.r = nullopt THEN Err(els.st, "expected statement after else")
           ELSE R(els.st, stmt.r)

\* `'(' expressionSequence ')'` as the statements with a condition parse it;
\* what names the statement in the messages.
condition(st, what, cond) ==
  LET e == Call("parseExpressionSequence", Call("advance", st))
  IN  IF K(st) # "Tok_LParen" THEN [st |-> st, err |-> <<"expected '(' after " \o what>>]
      ELSE IF ~e.ok THEN [st |-> e.st, err |-> <<"invalid " \o cond>>]
      ELSE IF K(e.st) # "Tok_RParen" THEN [st |-> e.st, err |-> <<"expected ')' after " \o cond>>]
      ELSE [st |-> Call("advance", e.st), err |-> <<>>]

\* The Do branch of parseIterationStatement
doStatement(st) ==
  LET body == Call("parseStatement", Call("advance", st))
      c    == condition(Call("advance", body.st), "while", "while condition")
  IN  IF body.r = nullopt THEN Err(body.st, "expected statement after do")
      ELSE IF K(body.st) # "Tok_While" THEN Err(body.st, "expected 'while' after do statement")
      ELSE IF c.err # <<>> THEN Err(c.st, c.err[1])
      ELSE Done(parseEos(c.st).st)

\* The While branch of parseIterationStatement
whileStatement(st) ==
  LET c == condition(Call("advance", st), "while", "while condition")
      stmt == Call("parseStatement", c.st)
  IN  IF c.err # <<>> THEN Err(c.st, c.err[1])
      ELSE IF stmt.r # nullopt THEN stmt
      ELSE Err(stmt.st, "invalid while body")

\* The For branch of parseIterationStatement; save is Cur at the entry of
\* the function.
forStatement(st, save) ==
  LET s1 == Call("advance", st)
      s2 == IF K(s1) = "Tok_Await" THEN Call("advance", s1) ELSE s1
      s3 == Call("advance", s2)
      save2 == s3.Cur
      e1 == Call("parseExpressionSequence", s3)
      v1 == Call("parseVariableDeclarationList", Restore(e1.st, save2))
      initFails == K(s3) # "Tok_Semi" /\ ~e1.ok /\ ~v1.ok
      s4 == IF K(s3) = "Tok_Semi" THEN s3 ELSE IF e1.ok THEN e1.st ELSE v1.st
      eos1 == parseEos(s4)
      e2 == IF K(eos1.st) # "Tok_Semi" THEN Call("parseExpressionSequence", eos1.st) ELSE B(eos1.st, TRUE)
      eos2 == parseEos(e2.st)
      e3 == IF K(eos2.st) # "Tok_RParen" THEN Call("parseExpressionSequence", eos2.st) ELSE B(eos2.st, TRUE)
      stmt == Call("parseStatement", Call("advance", e3.st))
  IN  IF K(s2) # "Tok_LParen" THEN Err(s2, "expected '(' after for")
      ELSE IF initFails THEN Err(Restore(v1.st, save), "invalid for initializer")
      ELSE IF ~eos1.ok THEN Err(eos1.st, "expected ';' in for")
      ELSE IF ~e2.ok THEN Err(e2.st, "invalid for condition")
      ELSE IF ~eos2.ok THEN Err(eos2.st, "expected second ';' in for")
      ELSE IF ~e3.ok THEN Err(e3.st, "invalid for increment")
      ELSE IF K(e3.st) # "Tok_RParen" THEN Err(e3.st, "expected ')' after for")
      ELSE IF stmt.r # nullopt THEN stmt
      ELSE Err(stmt.st, "invalid for body")

\* std::optional<ParseResult> Parser::parseIterationStatement()
parseIterationStatement(st) ==
  IF K(st) = "Tok_Do" THEN Call("doStatement", st)
  ELSE IF K(st) = "Tok_While" THEN Call("whileStatement", st)
  ELSE IF K(st) = "Tok_For" THEN forStatement(st, st.Cur)
  ELSE None(Restore(st, st.Cur))

\* std::optional<ParseResult> Parser::parseContinueStatement()
parseContinueStatement(st) ==
  IF K(st) # "Tok_Continue" THEN None(st)
  ELSE LET e == parseEos(Call("advance", st))
           s1 == IF ~e.ok THEN Call("parseIdentifierName", e.st).st ELSE e.st
       IN  Done(parseEos(s1).st)

\* std::optional<ParseResult> Parser::parseBreakStatement()
parseBreakStatement(st) ==
  IF K(st) # "Tok_Break" THEN None(st)
  ELSE LET breakTok == st.Cur
           e  == parseEos(Call("advance", st))
           s1 == IF ~e.ok /\ ~ContainsLineTerminatorBetween(e.st.Src,
                                 breakTok.pos + Len(breakTok.text), e.st.Cur.pos)
                 THEN Call("parseIdentifierName", e.st).st ELSE e.st
       IN  Done(parseEos(s1).st)

\* What parseReturnStatement and parseYieldStatement do after their keyword
\* kwTok: ({notLineTerminator}? expressionSequence)? eos
optionalExpressionSequence(st, kwTok) ==
  LET e  == parseEos(Call("advance", st))
      s1 == IF ~e.ok /\ ~ContainsLineTerminatorBetween(e.st.Src,
                            kwTok.pos + Len(kwTok.text), e.st.Cur.pos)
            THEN Call("parseExpressionSequence", e.st).st ELSE e.st
  IN  Done(parseEos(s1).st)

\* std::optional<ParseResult> Parser::parseReturnStatement()
parseReturnStatement(st) ==
  IF K(st) # "Tok_Return" THEN None(st) ELSE optionalExpressionSequence(st, st.Cur)

\* std::optional<ParseResult> Parser::parseYieldStatement()
parseYieldStatement(st) ==
  IF K(st) \notin {"Tok_Yield", "Tok_YieldStar"} THEN None(st)
  ELSE optionalExpressionSequence(st, st.Cur)

\* std::optional<ParseResult> Parser::parseWithStatement()
parseWithStatement(st) ==
  IF K(st) # "Tok_With" THEN None(st)
  ELSE LET c == condition(Call("advance", st), "with", "with expression")
           stmt == Call("parseStatement", c.st)
       IN  IF c.err # <<>> THEN Err(c.st, c.err[1])
           ELSE IF stmt.r # nullopt THEN stmt
           ELSE Err(stmt.st, "invalid with body")

\* `if (!parseBlock()) return false; return true;`: the optional as a bool
engaged(x) == B(x.st, x.r # nullopt)

\* bool Parser::parseCatchProduction()
parseCatchProduction(st) ==
  IF K(st) # "Tok_Catch" THEN B(st, FALSE)
  ELSE LET s1 == Call("advance", st)
           s2 == Call("advance", s1)
           a  == IF K(s2) # "Tok_RParen" THEN Call("parseAssignable", s2) ELSE B(s2, TRUE)
           s3 == IF K(s1) = "Tok_LParen" THEN Call("advance", a.st) ELSE s1
       IN  IF K(s1) = "Tok_LParen" /\ ~a.ok THEN B(a.st, FALSE)
           ELSE IF K(s1) = "Tok_LParen" /\ K(a.st) # "Tok_RParen" THEN B(a.st, FALSE)
           ELSE IF K(s3) # "Tok_LBrace" THEN B(s3, FALSE)
           ELSE engaged(Call("parseBlock", s3))

\* bool Parser::parseFinallyProduction()
parseFinallyProduction(st) ==
  IF K(st) # "Tok_Finally" THEN B(st, FALSE)
  ELSE engaged(Call("parseBlock", Call("advance", st)))

\* The rest of parseTryStatement once the try block has been parsed
tryHandlers(st) ==
  IF K(st) = "Tok_Catch"
  THEN LET c == Call("parseCatchProduction", st)
           f == Call("parseFinallyProduction", c.st)
       IN  IF ~c.ok THEN Err(c.st, "invalid catch clause")
           ELSE IF K(c.st) = "Tok_Finally"
                THEN IF ~f.ok THEN Err(f.st, "invalid finally clause") ELSE Done(f.st)
           ELSE Done(c.st)
  ELSE IF K(st) = "Tok_Finally"
  THEN LET f == Call("parseFinallyProduction", st)
       IN  IF ~f.ok THEN Err(f.st, "invalid finally clause") ELSE Done(f.st)
  ELSE Err(st, "expected 'catch' or 'finally' after try block")

\* std::optional<ParseResult> Parser::parseTryStatement()
parseTryStatement(st) ==
  IF K(st) # "Tok_Try" THEN None(st)
  ELSE LET s1 == Call("advance", st)
           b  == Call("parseBlock", s1)
       IN  IF K(s1) # "Tok_LBrace" THEN Err(s1, "expected '{' after try")
           ELSE IF b.r = nullopt THEN Err(b.st, "invalid try block")
           ELSE Call("tryHandlers", b.st)

\* std::optional<ParseResult> Parser::parseLabelledStatement()
parseLabelledStatement(st) ==
  LET saved == st.Cur
      i == Call("parseIdentifierName", st)
      inner == Call("parseStatement", Call("advance", i.st))
  IN  IF ~i.ok THEN None(i.st)
      ELSE IF K(i.st) # "Tok_Colon" THEN None(Restore(i.st, saved))
      ELSE IF inner.r = nullopt THEN Err(inner.st, "invalid labelled statement body")
      ELSE inner

\* bool Parser::parseCaseClause()
parseCaseClause(st) ==
  IF K(st) # "Tok_Case" THEN B(st, FALSE)
  ELSE LET e == Call("parseExpressionSequence", Call("advance", st))
       IN  IF ~e.ok THEN B(e.st, FALSE)
           ELSE IF K(e.st) # "Tok_Colon" THEN B(e.st, FALSE)
           ELSE B(Call("parseStatementList", Call("advance", e.st)).st, TRUE)

\* bool Parser::parseCaseClauses()
RECURSIVE caseClausesLoop(_, _)
caseClausesLoop(st, any) ==
  LET c == Call("parseCaseClause", st)
  IN  IF ~c.ok THEN B(c.st, any) ELSE caseClausesLoop(c.st, TRUE)

parseCaseClauses(st) == caseClausesLoop(st, FALSE)

\* bool Parser::parseDefaultClause()
parseDefaultClause(st) ==
  IF K(st) # "Tok_Default" THEN B(st, FALSE)
  ELSE LET s1 == Call("advance", st)
       IN  IF K(s1) # "Tok_Colon" THEN B(s1, FALSE)
           ELSE B(Call("parseStatementList", Call("advance", s1)).st, TRUE)

\* bool Parser::parseCaseBlock()
parseCaseBlock(st) ==
  IF K(st) # "Tok_LBrace" THEN B(st, FALSE)
  ELSE LET c1 == Call("parseCaseClauses", Call("advance", st)).st
           s2 == IF K(c1) = "Tok_Default"
                 THEN Call("parseCaseClauses", Call("parseDefaultClause", c1).st).st
                 ELSE c1
       IN  IF K(s2) # "Tok_RBrace" THEN B(s2, FALSE) ELSE B(Call("advance", s2), TRUE)

\* std::optional<ParseResult> Parser::parseSwitchStatement()
parseSwitchStatement(st) ==
  IF K(st) # "Tok_Switch" THEN None(st)
  ELSE LET s1 == Call("advance", st)
           e  == Call("parseExpressionSequence", Call("advance", s1))
           c  == Call("parseCaseBlock", Call("advance", e.st))
       IN  IF K(s1) # "Tok_LParen" THEN Err(s1, "expected '(' after switch")
           ELSE IF ~e.ok THEN Err(e.st, "invalid switch expression")
           ELSE IF K(e.st) # "Tok_RParen" THEN Err(e.st, "expected ')' after switch expression")
           ELSE IF ~c.ok THEN Err(c.st, "invalid case block")
           ELSE Done(c.st)

\* The loops that skip a bracketed run: `while (Cur.kind != Tok_EOF && depth > 0)`
\* with depth++ on open, depth-- on close, advance() in every case.  The
\* result is the state at the loop's exit and the depth there.
RECURSIVE skipBalanced(_, _, _, _)
skipBalanced(st, open, close, depth) ==
  IF K(st) = "Tok_EOF" \/ depth <= 0 THEN [st |-> st, depth |-> depth]
  ELSE LET n == Call("advance", st)
           d == IF K(st) = open THEN depth + 1 ELSE IF K(st) = close THEN depth - 1 ELSE depth
       IN  IF Same(st, n) THEN [st |-> Hang(n), depth |-> d]
           ELSE skipBalanced(n, open, close, d)

\* The case Tok_Function of parseDeclaration
functionDeclarationCase(st) ==
  LET s1 == Call("advance", st)
      s2 == IF K(s1) = "Tok_Identifier" THEN Call("parseIdentifierName", s1).st ELSE s1
      ps == skipBalanced(Call("advance", s2), "Tok_LParen", "Tok_RParen", 1)
      bs == skipBalanced(Call("advance", ps.st), "Tok_LBrace", "Tok_RBrace", 1)
  IN  IF K(s2) # "Tok_LParen" THEN Err(s2, "expected '(' after function declaration")
      ELSE IF K(ps.st) # "Tok_LBrace" THEN Err(ps.st, "expected '{' after function parameter list")
      ELSE Done(bs.st)

\* The loop `while (!parseEos())` of parseDeclaration
RECURSIVE declarationLoop(_)
declarationLoop(st) ==
  LET e == parseEos(st)
      n == Call("advance", e.st)
  IN  IF e.ok THEN e.st
      ELSE IF K(e.st) \in {"Tok_LBrace", "Tok_RBrace"} THEN e.st
      ELSE IF Same(st, n) THEN Hang(n)
      ELSE Call("declarationLoop", n)

\* std::optional<ParseResult> Parser::parseDeclaration()
parseDeclaration(st) ==
  IF K(st) \in {"Tok_Var", "Tok_NonStrictLet", "Tok_StrictLet", "Tok_Const"}
  THEN Done(parseEos(Call("declarationLoop", Call("advance", st))).st)
  ELSE IF K(st) = "Tok_Class" THEN Call("parseClassDeclaration", st)
  ELSE IF K(st) = "Tok_Function" THEN Call("functionDeclarationCase", st)
  ELSE None(st)

\* std::optional<ParseResult> Parser::parseFunctionDeclaration()
parseFunctionDeclaration(st) ==
  LET save == st.Cur
      s1 == IF K(st) = "Tok_Async" THEN Call("advance", st) ELSE st
      s2 == Call("advance", s1)
      s3 == IF K(s2) = "Tok_Multiply" THEN Call("advance", s2) ELSE s2
      nm == Call("parseIdentifierName", s3)
      ps == skipBalanced(Call("advance", nm.st), "Tok_LParen", "Tok_RParen", 1)
      bs == skipBalanced(Call("advance", ps.st), "Tok_LBrace", "Tok_RBrace", 1)
  IN  IF K(s1) # "Tok_Function" THEN None(Restore(s1, save))
      ELSE IF ~nm.ok THEN Err(nm.st, "expected function name after 'function' keyword")
      ELSE IF K(nm.st) # "Tok_LParen" THEN Err(nm.st, "expected '(' after function declaration")
      ELSE IF ps.depth # 0 THEN Err(ps.st, "expected ')' after function parameter list")
      ELSE IF K(ps.st) # "Tok_LBrace" THEN Err(ps.st, "expected '{' after function parameter list")
      ELSE IF bs.depth # 0 THEN Err(bs.st, "expected '}' after function body")
      ELSE Done(bs.st)

\* bool Parser::parsePrivateIdentifier()
parsePrivateIdentifier(st) ==
  IF K(st) # "Tok_Hashtag" THEN B(st, FALSE) ELSE Call("parseIdentifierName", Call("advance", st))

\* bool Parser::parseClassElementName()
parseClassElementName(st) ==
  IF \/ K(st) \in {"Tok_Identifier", "Tok_Static", "Tok_Async",
                   "Tok_Private", "Tok_Public", "Tok_Protected"}
     \/ st.Cur.text = <<"g","e","t">> \/ st.Cur.text = <<"s","e","t">>
     \/ st.Cur.text = <<"c","o","n","s","t","r","u","c","t","o","r">>
  THEN B(Call("advance", st), TRUE)
  ELSE IF K(st) \in {"Tok_StringLiteral", "Tok_DecimalLiteral", "Tok_Integer"}
       THEN B(Call("advance", st), TRUE)
  ELSE IF K(st) = "Tok_LBracket"
       THEN LET e == Call("parseSingleExpression", Call("advance", st))
            IN  IF ~e.ok THEN B(e.st, FALSE)
                ELSE IF K(e.st) # "Tok_RBracket" THEN B(e.st, FALSE)
                ELSE B(Call("advance", e.st), TRUE)
  ELSE IF K(st) = "Tok_Hashtag" THEN Call("parsePrivateIdentifier", st)
  ELSE B(Call("advance", Cerr(st)), TRUE)

\* The loops of parseClassElement that skip a bracketed run, starting on
\* the opening bracket with depth 0: `while (Cur.kind != Tok_EOF)` with
\* depth++ on open, and on close depth--, advance() and break at depth 0.
\* log tells whether each iteration writes to std::cout.
RECURSIVE skipGroup(_, _, _, _, _)
skipGroup(st, open, close, depth, log) ==
  IF K(st) = "Tok_EOF" THEN st
  ELSE LET s0 == IF log THEN Cout(st) ELSE st
           d1 == IF K(st) = open THEN depth + 1 ELSE depth
           d2 == IF K(st) = close THEN d1 - 1 ELSE d1
           n  == Call("advance", s0)
       IN  IF K(st) = close /\ d2 = 0 THEN n
           ELSE IF Same(st, n) THEN Hang(n)
           ELSE skipGroup(n, open, close, d2, log)

\* bool Parser::parseClassElement()
parseClassElement(st) ==
  LET nm == Call("parseClassElementName", st)
      s1 == Cerr(nm.st)
  IN  IF ~nm.ok THEN B(Call("advance", Cerr(nm.st)), TRUE)
      ELSE IF K(s1) = "Tok_Assign"
      THEN LET s2 == skipUntil(Call("advance", s1), {"Tok_Semi", "Tok_RBrace"}, FALSE)
           IN  B(IF K(s2) = "Tok_Semi" THEN Call("advance", s2) ELSE s2, TRUE)
      ELSE IF K(s1) = "Tok_LParen"
      THEN LET s2 == skipGroup(s1, "Tok_LParen", "Tok_RParen", 0, TRUE)
           IN  B(IF K(s2) = "Tok_LBrace"
                 THEN skipGroup(s2, "Tok_LBrace", "Tok_RBrace", 0, FALSE) ELSE s2, TRUE)
      ELSE IF K(s1) = "Tok_LBrace"
      THEN B(skipGroup(s1, "Tok_LBrace", "Tok_RBrace", 0, FALSE), TRUE)
      ELSE IF K(s1) = "Tok_Semi" THEN B(Call("advance", s1), TRUE)
      ELSE LET s2 == skipUntil(Cerr(s1), {"Tok_RBrace", "Tok_Semi"}, FALSE)
           IN  B(IF K(s2) = "Tok_Semi" THEN Call("advance", s2) ELSE s2, TRUE)

\* The loop of parseClassTail over the class elements
RECURSIVE classElementsLoop(_)
classElementsLoop(st) ==
  IF K(st) \in {"Tok_RBrace", "Tok_EOF"} THEN st
  ELSE LET before == st.Cur
           el == Call("parseClassElement", st)
           s1 == Cerr(el.st)
           s2 == IF ~el.ok \/ (s1.Cur.pos = before.pos /\ s1.Cur.kind = before.kind)
                 THEN Call("advance", Cerr(s1)) ELSE s1
       IN  IF Same(st, s2) THEN Hang(s2) ELSE Call("classElementsLoop", s2)

\* bool Parser::parseClassTail()
parseClassTail(st) ==
  LET x  == IF K(st) = "Tok_Extends" THEN Call("parseSingleExpression", Call("advance", st)) ELSE B(st, TRUE)
      s2 == Call("classElementsLoop", Call("advance", x.st))
  IN  IF ~x.ok THEN B(x.st, FALSE)
      ELSE IF K(x.st) # "Tok_LBrace" THEN B(x.st, FALSE)
      ELSE IF K(s2) # "Tok_RBrace" THEN B(Cerr(s2), FALSE)
      ELSE B(s2, TRUE)

\* std::optional<ParseResult> Parser::parseClassDeclaration()
parseClassDeclaration(st) ==
  IF K(st) # "Tok_Class" THEN None(st)
  ELSE LET s1 == Call("parseIdentifierName", Call("advance", st)).st
           s2 == IF K(s1) # "Tok_LBrace" THEN skipUntil(Cerr(s1), {"Tok_LBrace"}, TRUE) ELSE s1
           t  == Call("parseClassTail", s2)
           s3 == skipUntil(t.st, {"Tok_RBrace"}, TRUE)
           s4 == IF K(s3) = "Tok_RBrace" THEN Call("advance", s3) ELSE s3
       IN  IF K(s2) # "Tok_LBrace" THEN Err(Cerr(s2), "expected '{' after class name")
           ELSE IF ~t.ok THEN Err(t.st, "invalid class tail")
           ELSE Done(parseEos(s4).st)

\* bool Parser::parseFunctionBody()
parseFunctionBody(st) ==
  LET save == st.Cur
      b == Call("parseBlock", st)
  IN  IF b.r = nullopt THEN B(Restore(b.st, save), FALSE) ELSE B(b.st, TRUE)

-----------------------------------------------------------------------------
(* Parser: types *)

\* The Type nodes of ast.h
RawType(raw) == [type |-> "RawType", Raw |-> raw]
NamedType(name) == [type |-> "NamedType", Name |-> name]
GenericType(base, args) == [type |-> "GenericType", Base |-> base, Args |-> args]
ArrayType(element) == [type |-> "ArrayType", Element |-> element]
UnionType(options) == [type |-> "UnionType", Options |-> options]
IntersectionType(parts) == [type |-> "IntersectionType", Parts |-> parts]

\* A std::unique_ptr<Type> is <<>> (null) or <<t>>.  T(st, t) is what the
\* lambda parsePrimary and takeParsedType give: the parser and the pointer.
T(st, t) == [st |-> st, t |-> t]

\* std::unique_ptr<Type> Parser::takeParsedType()
takeParsedType(st) == T([st EXCEPT !.LastTypeParsed = <<>>], st.LastTypeParsed)

\* The loops of parsePrimary that capture the raw text of a bracketed type
RECURSIVE rawTypeLoop(_, _, _, _, _)
rawTypeLoop(st, open, close, depth, raw) ==
  IF K(st) = "Tok_EOF" THEN T(st, <<RawType(raw)>>)
  ELSE LET d1 == IF K(st) = open THEN depth + 1 ELSE depth
           d2 == IF K(st) = close THEN d1 - 1 ELSE d1
           n  == Call("advance", st)
           r2 == raw \o st.Cur.text
       IN  IF K(st) = close /\ d2 = 0 THEN T(n, <<RawType(r2)>>)
           ELSE IF Same(st, n) THEN T(Hang(n), <<RawType(r2)>>)
           ELSE rawTypeLoop(n, open, close, d2, r2)

\* The loop `while (Cur.kind == Tok_LBracket)` of parsePrimary: array suffixes
RECURSIVE arraySuffixLoop(_, _)
arraySuffixLoop(st, base) ==
  IF K(st) # "Tok_LBracket" THEN T(st, <<base>>)
  ELSE LET s1 == Call("advance", st)
       IN  IF K(s1) = "Tok_RBracket" THEN arraySuffixLoop(Call("advance", s1), ArrayType(base))
           ELSE T(s1, <<base>>)

\* The loop of parsePrimary over the arguments of a generic type; the
\* pointer is null when the lambda returns nullptr from inside the loop.
RECURSIVE genericArgsLoop(_, _, _)
genericArgsLoop(st, base, args) ==
  IF K(st) \in {"Tok_EOF", "Tok_MoreThan"} THEN T(st, <<GenericType(base, args)>>)
  ELSE LET p   == Call("parseType", st)
           arg == Call("takeParsedType", p.st)
           s1  == IF K(arg.st) = "Tok_Comma" THEN Call("advance", arg.st) ELSE arg.st
       IN  IF ~p.ok THEN T(p.st, <<>>)
           ELSE IF arg.t = <<>> THEN T(arg.st, <<>>)
           ELSE IF Same(st, s1) THEN T(Hang(s1), <<>>)
           ELSE genericArgsLoop(s1, base, args \o arg.t)

TypeNameKinds == {"Tok_Identifier", "Tok_Any", "Tok_Number", "Tok_Never", "Tok_Boolean",
                  "Tok_String", "Tok_Unique", "Tok_Symbol", "Tok_Undefined", "Tok_Object"}

\* The lambda parsePrimary of parseType
parsePrimary(st) ==
  IF K(st) = "Tok_LParen"
  THEN LET p == Call("parseType", Call("advance", st))
           t == Call("takeParsedType", p.st)
       IN  IF ~p.ok THEN T(p.st, <<>>)
           ELSE IF t.t = <<>> THEN T(t.st, <<>>)
           ELSE IF K(t.st) # "Tok_RParen" THEN T(t.st, <<>>)
           ELSE T(Call("advance", t.st), t.t)
  ELSE IF K(st) = "Tok_LBrace" THEN rawTypeLoop(st, "Tok_LBrace", "Tok_RBrace", 0, <<>>)
  ELSE IF K(st) = "Tok_LBracket" THEN rawTypeLoop(st, "Tok_LBracket", "Tok_RBracket", 0, <<>>)
  ELSE IF K(st) \in TypeNameKinds
  THEN LET base == NamedType(st.Cur.text)
           s1 == Call("advance", st)
           g  == genericArgsLoop(Call("advance", s1), base, <<>>)
           s2 == IF K(g.st) = "Tok_MoreThan" THEN Call("advance", g.st) ELSE g.st
       IN  IF K(s1) # "Tok_LessThan" THEN arraySuffixLoop(s1, base)
           ELSE IF g.t = <<>> THEN g
           ELSE arraySuffixLoop(s2, g.t[1])
  ELSE T(st, <<>>)

\* A loop that nests each union or intersection in the next
RECURSIVE unionLoopNested(_, _)
unionLoopNested(st, left) ==
  IF K(st) \notin {"Tok_BitOr", "Tok_BitAnd"} THEN [st |-> st, ok |-> TRUE, left |-> left]
  ELSE LET isUnion == K(st) = "Tok_BitOr"
           right == Call("parsePrimary", Call("advance", st))
       IN  IF right.t = <<>> THEN [st |-> right.st, ok |-> FALSE, left |-> left]
           ELSE unionLoopNested(right.st, IF isUnion THEN UnionType(<<left>> \o right.t)
                                          ELSE IntersectionType(<<left>> \o right.t))

\* The loop of parseType over '|' and '&'; left is the type so far.  ok is
\* FALSE when parseType returns false from inside the loop.
RECURSIVE unionLoop(_, _)
unionLoop(st, left) ==
  IF K(st) \notin {"Tok_BitOr", "Tok_BitAnd"} THEN [st |-> st, ok |-> TRUE, left |-> left]
  ELSE LET isUnion == K(st) = "Tok_BitOr"
           right == Call("parsePrimary", Call("advance", st))
           u  == UnionType((IF left.type = "UnionType" THEN left.Options ELSE <<left>>) \o right.t)
           it == IntersectionType((IF left.type = "IntersectionType" THEN left.Parts ELSE <<left>>)
                                  \o right.t)
       IN  IF right.t = <<>> THEN [st |-> right.st, ok |-> FALSE, left |-> left]
           ELSE unionLoop(right.st, IF isUnion THEN u ELSE it)

\* bool Parser::parseType()
parseType(st) ==
  LET left == Call("parsePrimary", st)
      l    == unionLoop(left.st, left.t[1])
  IN  IF left.t = <<>> THEN B(left.st, FALSE)
      ELSE IF ~l.ok THEN B(l.st, FALSE)
      ELSE B([l.st EXCEPT !.LastTypeParsed = <<l.left>>], TRUE)

-----------------------------------------------------------------------------
(* Parser: variable declarations *)

\* bool Parser::parseAssignable()
parseAssignable(st) ==
  LET i == Call("parseIdentifierName", st)
  IN  IF i.ok THEN i
      ELSE IF K(i.st) = "Tok_LBrace" THEN Call("parseObjectLiteral", i.st)
      ELSE IF K(i.st) = "Tok_LBracket" THEN Call("parseArrayLiteral", i.st)
      ELSE B(i.st, FALSE)

\* bool Parser::parseVariableDeclaration()
parseVariableDeclaration(st) ==
  LET a  == Call("parseAssignable", st)
      ty == IF K(a.st) = "Tok_Colon" THEN Call("parseType", Call("advance", a.st)) ELSE B(a.st, TRUE)
      e  == IF K(ty.st) = "Tok_Assign" THEN Call("parseSingleExpression", Call("advance", ty.st)) ELSE B(ty.st, TRUE)
  IN  IF ~a.ok THEN B(a.st, FALSE)
      ELSE IF ~ty.ok THEN B(ty.st, FALSE)
      ELSE e

\* bool Parser::parseLet_()
parseLet_(st) ==
  IF K(st) \in {"Tok_NonStrictLet", "Tok_StrictLet"} THEN B(Call("advance", st), TRUE) ELSE B(st, FALSE)

\* bool Parser::parseVarModifier()
parseVarModifier(st) ==
  IF K(st) \in {"Tok_Var", "Tok_Const"} THEN B(Call("advance", st), TRUE)
  ELSE IF K(st) \in {"Tok_NonStrictLet", "Tok_StrictLet"} THEN Call("parseLet_", st)
  ELSE B(st, FALSE)

\* The loop `while (Cur.kind == Tok_Comma)` of parseVariableDeclarationList
RECURSIVE variableDeclarationListLoop(_)
variableDeclarationListLoop(st) ==
  IF K(st) # "Tok_Comma" THEN B(st, TRUE)
  ELSE LET d == Call("parseVariableDeclaration", Call("advance", st))
       IN  IF ~d.ok THEN B(d.st, FALSE) ELSE Call("variableDeclarationListLoop", d.st)

\* bool Parser::parseVariableDeclarationList()
parseVariableDeclarationList(st) ==
  LET m == Call("parseVarModifier", st)
      d == Call("parseVariableDeclaration", m.st)
  IN  IF ~m.ok THEN B(m.st, FALSE)
      ELSE IF ~d.ok THEN B(d.st, FALSE)
      ELSE Call("variableDeclarationListLoop", d.st)

\* std::optional<ParseResult> Parser::parseVariableStatement()
parseVariableStatement(st) ==
  LET save == st.Cur
      l == Call("parseVariableDeclarationList", st)
  IN  IF ~l.ok THEN None(Restore(l.st, save))
      ELSE Done([parseEos(l.st).st EXCEPT !.LastTypeParsed = <<>>])

\* bool Parser::parseFormalParameterArg()
parseFormalParameterArg(st) ==
  LET a == Call("parseAssignable", st)
  IN  IF ~a.ok THEN B(a.st, FALSE)
      ELSE IF K(a.st) = "Tok_Assign" THEN Call("parseSingleExpression", Call("advance", a.st))
      ELSE B(a.st, TRUE)

\* bool Parser::parseLastFormalParameterArg()
parseLastFormalParameterArg(st) ==
  IF K(st) # "Tok_Ellipsis" THEN B(st, FALSE) ELSE Call("parseSingleExpression", Call("advance", st))

\* The loop `while (Cur.kind == Tok_Comma)` of parseFormalParameterList
RECURSIVE formalParameterListLoop(_, _)
formalParameterListLoop(st, save) ==
  IF K(st) # "Tok_Comma" THEN B(st, TRUE)
  ELSE LET l == Call("parseLastFormalParameterArg", Call("advance", st))
           a == Call("parseFormalParameterArg", l.st)
       IN  IF l.ok THEN B(l.st, TRUE)
           ELSE IF ~a.ok THEN B(Restore(a.st, save), FALSE)
           ELSE formalParameterListLoop(a.st, save)

\* bool Parser::parseFormalParameterList()
parseFormalParameterList(st) ==
  LET save == st.Cur
      l == Call("parseLastFormalParameterArg", st)
      a == Call("parseFormalParameterArg", l.st)
  IN  IF l.ok THEN B(l.st, TRUE)
      ELSE IF ~a.ok THEN B(Restore(a.st, save), FALSE)
      ELSE formalParameterListLoop(a.st, save)

-----------------------------------------------------------------------------
(* Parser: literals, property names, arguments *)

\* bool Parser::n(const std::string &s)
n(st, s) ==
  IF st.Cur.text # s THEN FALSE
  ELSE IF st.PrevTokenEnd = 0 THEN TRUE
  ELSE IF st.PrevTokenEnd >= st.Cur.pos THEN TRUE
  ELSE ~ContainsLineTerminatorBetween(st.Src, st.PrevTokenEnd, st.Cur.pos)

NumericLiteralKinds == {"Tok_DecimalLiteral", "Tok_HexIntegerLiteral", "Tok_OctalIntegerLiteral",
                        "Tok_OctalIntegerLiteral2", "Tok_BinaryIntegerLiteral", "Tok_Integer"}

\* bool Parser::parseNumericLiteral()
parseNumericLiteral(st) ==
  IF K(st) \in NumericLiteralKinds THEN B(Call("advance", st), TRUE) ELSE B(st, FALSE)

\* bool Parser::parseBigintLiteral()
parseBigintLiteral(st) ==
  IF K(st) \in {"Tok_BigDecimalIntegerLiteral", "Tok_BigHexIntegerLiteral",
                "Tok_BigOctalIntegerLiteral", "Tok_BigBinaryIntegerLiteral"}
  THEN B(Call("advance", st), TRUE) ELSE B(st, FALSE)

\* bool Parser::parseTemplateStringAtom()
parseTemplateStringAtom(st) ==
  IF K(st) = "Tok_TemplateStringAtom" THEN B(Call("advance", st), TRUE)
  ELSE IF K(st) = "Tok_TemplateStringStartExpression"
       THEN LET e == Call("parseSingleExpression", Call("advance", st))
            IN  IF ~e.ok THEN B(e.st, FALSE) ELSE B(e.st, TRUE)
  ELSE B(st, FALSE)

\* The loop of parseTemplateStringLiteral over the atoms of the template
RECURSIVE templateAtomsLoop(_)
templateAtomsLoop(st) ==
  IF K(st) \notin {"Tok_TemplateStringAtom", "Tok_TemplateStringStartExpression"} THEN B(st, TRUE)
  ELSE LET a == Call("parseTemplateStringAtom", st)
       IN  IF ~a.ok THEN B(a.st, FALSE)
           ELSE IF Same(st, a.st) THEN B(Hang(a.st), FALSE)
           ELSE Call("templateAtomsLoop", a.st)

\* bool Parser::parseTemplateStringLiteral()
parseTemplateStringLiteral(st) ==
  IF K(st) = "Tok_BackTick"
  THEN LET l == Call("templateAtomsLoop", Call("advance", st))
       IN  IF ~l.ok THEN B(l.st, FALSE)
           ELSE IF K(l.st) # "Tok_BackTick" THEN B(l.st, FALSE)
           ELSE B(Call("advance", l.st), TRUE)
  ELSE IF K(st) = "Tok_TemplateStringAtom" THEN B(Call("advance", st), TRUE)
  ELSE B(st, FALSE)

\* bool Parser::parseLiteral()
parseLiteral(st) ==
  IF K(st) \in {"Tok_NullLiteral", "Tok_BooleanLiteral", "Tok_StringLiteral",
                "Tok_RegularExpressionLiteral"}
  THEN B(Call("advance", st), TRUE)
  ELSE LET t == Call("parseTemplateStringLiteral", st)
           m == Call("parseNumericLiteral", t.st)
       IN  IF t.ok THEN t ELSE IF m.ok THEN m ELSE Call("parseBigintLiteral", m.st)

\* bool Parser::parseAssignmentOperator()
parseAssignmentOperator(st) ==
  IF K(st) \in {"Tok_MultiplyAssign", "Tok_DivideAssign", "Tok_ModulusAssign", "Tok_PlusAssign",
                "Tok_MinusAssign", "Tok_LeftShiftArithmeticAssign",
                "Tok_RightShiftArithmeticAssign", "Tok_RightShiftLogicalAssign",
                "Tok_BitAndAssign", "Tok_BitXorAssign", "Tok_BitOrAssign", "Tok_PowerAssign",
                "Tok_NullishCoalescingAssign"}
  THEN B(Call("advance", st), TRUE) ELSE B(st, FALSE)

\* bool Parser::parsePropertyName()
parsePropertyName(st) ==
  IF K(st) = "Tok_StringLiteral" THEN B(Call("advance", st), TRUE)
  ELSE IF K(st) \in NumericLiteralKinds THEN B(Call("advance", st), TRUE)
  ELSE IF K(st) = "Tok_LBracket"
       THEN LET e == Call("parseSingleExpression", Call("advance", st))
            IN  IF ~e.ok THEN B(e.st, FALSE)
                ELSE IF K(e.st) # "Tok_RBracket" THEN B(e.st, FALSE)
                ELSE B(Call("advance", e.st), TRUE)
  ELSE Call("parseIdentifierName", st)

\* The tail `identifierName classElementName` of parseGetter and parseSetter
accessorName(st, save) ==
  LET i == Call("parseIdentifierName", st)
      c == Call("parseClassElementName", i.st)
  IN  IF ~i.ok THEN B(Restore(i.st, save), FALSE)
      ELSE IF ~c.ok THEN B(Restore(c.st, save), FALSE)
      ELSE B(c.st, TRUE)

\* bool Parser::parseGetter()
parseGetter(st) ==
  IF n(st, <<"g","e","t">>) THEN accessorName(Call("advance", st), st.Cur)
  ELSE accessorName(Restore(st, st.Cur), st.Cur)

\* bool Parser::parseSetter()
parseSetter(st) ==
  IF n(st, <<"s","e","t">>) THEN accessorName(Call("advance", st), st.Cur)
  ELSE accessorName(Restore(st, st.Cur), st.Cur)

\* bool Parser::parseArgument()
parseArgument(st) ==
  IF K(st) = "Tok_Ellipsis" THEN Call("parseSingleExpression", Call("advance", st))
  ELSE Call("parseSingleExpression", st)

\* The loop `while (Cur.kind == Tok_Comma)` of parseArguments
RECURSIVE argumentsLoop(_)
argumentsLoop(st) ==
  IF K(st) # "Tok_Comma" THEN B(st, TRUE)
  ELSE LET s1 == Call("advance", st)
           a  == Call("parseArgument", s1)
       IN  IF K(s1) = "Tok_RParen" THEN B(s1, TRUE)
           ELSE IF ~a.ok THEN B(a.st, FALSE)
           ELSE Call("argumentsLoop", a.st)

\* bool Parser::parseArguments()
parseArguments(st) ==
  LET s1 == Call("advance", st)
      a  == Call("parseArgument", s1)
      l  == IF K(s1) # "Tok_RParen" THEN Call("argumentsLoop", a.st) ELSE B(s1, TRUE)
  IN  IF K(st) # "Tok_LParen" THEN B(st, FALSE)
      ELSE IF K(s1) # "Tok_RParen" /\ ~a.ok THEN B(a.st, FALSE)
      ELSE IF ~l.ok THEN B(l.st, FALSE)
      ELSE IF K(l.st) # "Tok_RParen" THEN B(l.st, FALSE)
      ELSE B(Call("advance", l.st), TRUE)

-----------------------------------------------------------------------------
(* Parser: object and array literals, functions, expressions *)

\* parsePropertyAssignment, alternative 6: Ellipsis? singleExpression
propertyShorthand(st, save) ==
  IF K(st) = "Tok_Ellipsis"
  THEN LET e == Call("parseSingleExpression", Call("advance", st))
       IN  IF ~e.ok THEN B(Restore(e.st, save), FALSE) ELSE B(e.st, TRUE)
  ELSE Call("parseSingleExpression", st)

\* parsePropertyAssignment, alternative 5: setter '(' formalParameterArg ')' functionBody
propertySetter(st, save) ==
  LET g == Call("parseSetter", st)
      a == Call("parseFormalParameterArg", Call("advance", g.st))
      b == Call("parseFunctionBody", Call("advance", a.st))
  IN  IF ~g.ok THEN propertyShorthand(Restore(g.st, save), save)
      ELSE IF K(g.st) # "Tok_LParen" THEN B(Restore(g.st, save), FALSE)
      ELSE IF ~a.ok THEN B(Restore(a.st, save), FALSE)
      ELSE IF K(a.st) # "Tok_RParen" THEN B(Restore(a.st, save), FALSE)
      ELSE IF ~b.ok THEN B(Restore(b.st, save), FALSE)
      ELSE B(b.st, TRUE)

\* parsePropertyAssignment, alternative 4: getter '(' ')' functionBody
propertyGetter(st, save) ==
  LET g  == Call("parseGetter", st)
      s1 == Call("advance", g.st)
      b  == Call("parseFunctionBody", Call("advance", s1))
  IN  IF ~g.ok THEN propertySetter(Restore(g.st, save), save)
      ELSE IF K(g.st) # "Tok_LParen" THEN B(Restore(g.st, save), FALSE)
      ELSE IF K(s1) # "Tok_RParen" THEN B(Restore(s1, save), FALSE)
      ELSE IF ~b.ok THEN B(Restore(b.st, save), FALSE)
      ELSE B(b.st, TRUE)

\* parsePropertyAssignment, alternative 3:
\* Async? '*'? propertyName '(' formalParameterList? ')' functionBody
functionProperty(st, save) ==
  LET s0 == Restore(st, save)
      s1 == IF K(s0) = "Tok_Async" THEN Call("advance", s0) ELSE s0
      s2 == IF K(s1) = "Tok_Multiply" THEN Call("advance", s1) ELSE s1
      p  == Call("parsePropertyName", s2)
      s3 == Call("advance", p.st)
      f  == IF K(s3) # "Tok_RParen" THEN Call("parseFormalParameterList", s3) ELSE B(s3, TRUE)
      b  == Call("parseFunctionBody", Call("advance", f.st))
  IN  IF ~(p.ok /\ K(p.st) = "Tok_LParen") THEN propertyGetter(Restore(p.st, save), save)
      ELSE IF ~f.ok THEN B(Restore(f.st, save), FALSE)
      ELSE IF K(f.st) # "Tok_RParen" THEN B(Restore(f.st, save), FALSE)
      ELSE IF ~b.ok THEN B(Restore(b.st, save), FALSE)
      ELSE B(b.st, TRUE)

\* parsePropertyAssignment, alternative 2: '[' singleExpression ']' ':' singleExpression
computedProperty(st, save) ==
  LET e  == Call("parseSingleExpression", Call("advance", st))
      s1 == Call("advance", e.st)
      v  == Call("parseSingleExpression", Call("advance", s1))
  IN  IF K(st) # "Tok_LBracket" THEN functionProperty(st, save)
      ELSE IF ~e.ok THEN B(Restore(e.st, save), FALSE)
      ELSE IF K(e.st) # "Tok_RBracket" THEN B(Restore(e.st, save), FALSE)
      ELSE IF K(s1) # "Tok_Colon" THEN B(Restore(s1, save), FALSE)
      ELSE IF ~v.ok THEN B(Restore(v.st, save), FALSE)
      ELSE B(v.st, TRUE)

\* bool Parser::parsePropertyAssignment()
parsePropertyAssignment(st) ==
  LET save == st.Cur
      p == Call("parsePropertyName", st)
      v == Call("parseSingleExpression", Call("advance", p.st))
  IN  IF ~p.ok THEN computedProperty(p.st, save)
      ELSE IF K(p.st) # "Tok_Colon" THEN computedProperty(Restore(p.st, save), save)
      ELSE IF ~v.ok THEN B(Restore(v.st, save), FALSE)
      ELSE B(v.st, TRUE)

\* The loop `while (Cur.kind == Tok_Comma)` of parseObjectLiteral
RECURSIVE objectLiteralLoop(_)
objectLiteralLoop(st) ==
  IF K(st) # "Tok_Comma" THEN st
  ELSE LET s1 == Call("advance", st)
           p  == Call("parsePropertyAssignment", s1)
       IN  IF K(s1) = "Tok_RBrace" THEN s1
           ELSE IF ~p.ok THEN skipUntil(p.st, {"Tok_RBrace"}, FALSE)
           ELSE Call("objectLiteralLoop", p.st)

\* bool Parser::parseObjectLiteral()
parseObjectLiteral(st) ==
  LET s1 == Call("advance", st)
      p  == Call("parsePropertyAssignment", s1)
      sk == skipUntil(p.st, {"Tok_RBrace"}, FALSE)
      l  == Call("objectLiteralLoop", p.st)
  IN  IF K(st) # "Tok_LBrace" THEN B(st, FALSE)
      ELSE IF K(s1) = "Tok_RBrace" THEN B(Call("advance", s1), TRUE)
      ELSE IF ~p.ok
           THEN IF K(sk) = "Tok_RBrace" THEN B(Call("advance", sk), TRUE) ELSE B(sk, FALSE)
      ELSE IF K(l) # "Tok_RBrace" THEN B(l, FALSE)
      ELSE B(Call("advance", l), TRUE)

\* bool Parser::parseArrayElement()
parseArrayElement(st) ==
  IF K(st) = "Tok_Ellipsis" THEN Call("parseSingleExpression", Call("advance", st))
  ELSE Call("parseSingleExpression", st)

\* The loops `while (Cur.kind == Tok_Comma) advance();` of parseElementList
RECURSIVE commasLoop(_)
commasLoop(st) == IF K(st) = "Tok_Comma" THEN Call("commasLoop", Call("advance", st)) ELSE st

\* The outer loop `while (Cur.kind == Tok_Comma)` of parseElementList
RECURSIVE elementListLoop(_)
elementListLoop(st) ==
  IF K(st) # "Tok_Comma" THEN B(st, TRUE)
  ELSE LET e == Call("parseArrayElement", Call("commasLoop", st))
       IN  IF ~e.ok THEN B(e.st, TRUE) ELSE Call("elementListLoop", e.st)

\* bool Parser::parseElementList()
parseElementList(st) ==
  LET e == Call("parseArrayElement", Call("commasLoop", st))
  IN  IF e.ok THEN Call("elementListLoop", e.st) ELSE B(e.st, TRUE)

\* bool Parser::parseArrayLiteral()
parseArrayLiteral(st) ==
  LET l == Call("parseElementList", Call("advance", st))
  IN  IF K(st) # "Tok_LBracket" THEN B(st, FALSE)
      ELSE IF ~l.ok THEN B(l.st, FALSE)
      ELSE IF K(l.st) # "Tok_RBracket" THEN B(l.st, FALSE)
      ELSE B(Call("advance", l.st), TRUE)

\* bool Parser::parseArrowFunctionParameters()
parseArrowFunctionParameters(st) ==
  LET save == st.Cur
      s1 == Call("advance", st)
      f  == IF K(s1) # "Tok_RParen" THEN Call("parseFormalParameterList", s1) ELSE B(s1, TRUE)
      p  == Call("parsePropertyName", st)
  IN  IF K(st) = "Tok_LParen"
      THEN IF ~f.ok THEN B(Restore(f.st, save), FALSE)
           ELSE IF K(f.st) # "Tok_RParen" THEN B(Restore(f.st, save), FALSE)
           ELSE B(Call("advance", f.st), TRUE)
      ELSE IF p.ok THEN p
      ELSE B(Restore(p.st, save), FALSE)

\* bool Parser::parseArrowFunctionBody()
parseArrowFunctionBody(st) ==
  LET save == st.Cur
      b == Call("parseFunctionBody", st)
      e == Call("parseSingleExpression", st)
  IN  IF K(st) = "Tok_LBrace"
      THEN IF ~b.ok THEN B(Restore(b.st, save), FALSE) ELSE B(b.st, TRUE)
      ELSE IF e.ok THEN e
      ELSE B(Restore(e.st, save), FALSE)

\* bool Parser::parseAnonymousFunction()
parseAnonymousFunction(st) ==
  LET save == st.Cur
      fd == Call("parseFunctionDeclaration", st)
      s1 == Restore(fd.st, save)
      s2 == IF K(s1) = "Tok_Async" THEN Call("advance", s1) ELSE s1
      \* Async? Function_ '*'? '(' formalParameterList? ')' functionBody
      s3 == Call("advance", s2)
      s4 == IF K(s3) = "Tok_Multiply" THEN Call("advance", s3) ELSE s3
      a  == Call("parseArguments", s4)
      b  == Call("parseFunctionBody", a.st)
      \* Async? arrowFunctionParameters '=>' arrowFunctionBody
      s5 == Restore(s2, save)
      s6 == IF K(s5) = "Tok_Async" THEN Call("advance", s5) ELSE s5
      ap == Call("parseArrowFunctionParameters", s6)
      s7 == Call("advance", ap.st)
      body == IF K(s7) = "Tok_LBrace" THEN Call("parseFunctionBody", s7) ELSE Call("parseSingleExpression", s7)
  IN  IF fd.r # nullopt THEN B(fd.st, TRUE)
      ELSE IF K(s2) = "Tok_Function"
           THEN IF K(s4) # "Tok_LParen" THEN B(Restore(s4, save), FALSE)
                ELSE IF ~a.ok THEN B(Restore(a.st, save), FALSE)
                ELSE IF ~b.ok THEN B(Restore(b.st, save), FALSE)
                ELSE B(b.st, TRUE)
      ELSE IF ~ap.ok THEN B(Restore(ap.st, save), FALSE)
      ELSE IF K(ap.st) # "Tok_Arrow" THEN B(Restore(ap.st, save), FALSE)
      ELSE IF ~body.ok THEN B(Restore(body.st, save), FALSE)
      ELSE B(body.st, TRUE)

\* The lambda parsePrimary of parseSingleExpression, case Tok_LBrace: the
\* loop that consumes up to the matching '}'
RECURSIVE bracePrimaryLoop(_, _)
bracePrimaryLoop(st, depth) ==
  IF K(st) = "Tok_EOF" THEN B(st, FALSE)
  ELSE IF K(st) = "Tok_LBrace" THEN bracePrimaryLoop(Call("advance", st), depth + 1)
  ELSE IF K(st) = "Tok_RBrace"
       THEN IF depth - 1 = 0 THEN B(Call("advance", st), TRUE)
            ELSE bracePrimaryLoop(Call("advance", st), depth - 1)
  ELSE LET s1 == Call("advance", st)
       IN  IF Same(st, s1) THEN B(Hang(s1), FALSE) ELSE bracePrimaryLoop(s1, depth)

\* The lambda parsePrimary of parseSingleExpression
parsePrimaryExpression(st) ==
  IF K(st) \in NumericLiteralKinds \cup {"Tok_StringLiteral", "Tok_NullLiteral",
                                        "Tok_BooleanLiteral", "Tok_This", "Tok_Super"}
  THEN B(Call("advance", st), TRUE)
  ELSE IF K(st) = "Tok_LBracket" THEN Call("parseArrayLiteral", st)
  ELSE IF K(st) = "Tok_LBrace" THEN bracePrimaryLoop(st, 0)
  ELSE IF K(st) = "Tok_LParen"
       THEN LET s1 == Call("advance", st)
                e  == Call("parseExpressionSequence", s1)
            IN  IF K(s1) = "Tok_RParen" THEN B(Call("advance", s1), TRUE)
                ELSE IF ~e.ok THEN B(e.st, FALSE)
                ELSE IF K(e.st) # "Tok_RParen" THEN B(e.st, FALSE)
                ELSE B(Call("advance", e.st), TRUE)
  ELSE IF K(st) \in {"Tok_Function", "Tok_Class"} THEN B(Call("advance", st), TRUE)
  ELSE Call("parseIdentifierName", st)

\* The loop `while (true)` of parseSingleExpression over the postfix forms
RECURSIVE postfixLoop(_)
postfixLoop(st) ==
  IF K(st) \in {"Tok_Dot", "Tok_QuestionDot"}
  THEN LET i == Call("parseIdentifierName", Call("advance", st))
       IN  IF ~i.ok THEN B(i.st, FALSE) ELSE Call("postfixLoop", i.st)
  ELSE IF K(st) = "Tok_LBracket"
       THEN LET e == Call("parseExpressionSequence", Call("advance", st))
            IN  IF ~e.ok THEN B(e.st, FALSE)
                ELSE IF K(e.st) # "Tok_RBracket" THEN B(e.st, FALSE)
                ELSE Call("postfixLoop", Call("advance", e.st))
  ELSE IF K(st) = "Tok_LParen"
       THEN LET a == Call("parseArguments", st)
            IN  IF ~a.ok THEN B(a.st, FALSE) ELSE Call("postfixLoop", a.st)
  ELSE IF K(st) \in {"Tok_PlusPlus", "Tok_MinusMinus"} THEN Call("postfixLoop", Call("advance", st))
  ELSE B(st, TRUE)

\* parseSingleExpression, the forms that start with `new`
newExpression(st) ==
  LET i  == Call("parseIdentifierName", st)
      e  == Call("parseSingleExpression", i.st)
      s1 == IF i.ok THEN i.st ELSE e.st
  IN  IF ~i.ok /\ ~e.ok THEN B(e.st, FALSE)
      ELSE IF K(s1) = "Tok_LParen" THEN Call("parseArguments", s1)
      ELSE B(s1, TRUE)

\* bool Parser::parseSingleExpression()
parseSingleExpression(st) ==
  LET save == st.Cur
      f  == Call("parseAnonymousFunction", st)
      s0 == Restore(f.st, save)
      p  == Call("parsePrimaryExpression", s0)
  IN  IF f.ok THEN f
      ELSE IF K(s0) \in {"Tok_PlusPlus", "Tok_MinusMinus", "Tok_Plus", "Tok_Minus",
                         "Tok_BitNot", "Tok_Not", "Tok_Delete", "Tok_Void", "Tok_Typeof",
                         "Tok_Await"}
           THEN Call("parseSingleExpression", Call("advance", s0))
      ELSE IF K(s0) = "Tok_New" THEN Call("newExpression", Call("advance", s0))
      ELSE IF ~p.ok THEN B(p.st, FALSE)
      ELSE Call("postfixLoop", p.st)

-----------------------------------------------------------------------------
(* Parser: statements *)

\* The alternatives of parseStatement, in the order the code tries them
statementAlternative(i, st) ==
  CASE i = 1  -> Call("parseBlock", st)
    [] i = 2  -> Call("parseVariableStatement", st)
    [] i = 3  -> Call("parseClassDeclaration", st)
    [] i = 4  -> Call("parseEmptyStatement", st)
    [] i = 5  -> Call("parseImportStatement", st)
    [] i = 6  -> Call("parseExportStatement", st)
    [] i = 7  -> Call("parsePrintStatement", st)
    [] i = 8  -> Call("parseLabelledStatement", st)
    [] i = 9  -> Call("parseExpressionStatement", st)
    [] i = 10 -> Call("parseIfStatement", st)
    [] i = 11 -> Call("parseIterationStatement", st)
    [] i = 12 -> Call("parseContinueStatement", st)
    [] i = 13 -> Call("parseBreakStatement", st)
    [] i = 14 -> Call("parseReturnStatement", st)
    [] i = 15 -> Call("parseYieldStatement", st)
    [] i = 16 -> Call("parseWithStatement", st)
    [] OTHER  -> Call("parseSwitchStatement", st)

\* `if (auto x = parseX()) return x;` from alternative i on
RECURSIVE statementAlternatives(_, _)
statementAlternatives(i, st) ==
  LET x == statementAlternative(i, st)
  IN  IF x.r # nullopt THEN x
      ELSE IF i = 17 THEN None(x.st)
      ELSE statementAlternatives(i + 1, x.st)

\* The alternative of parseStatement that returns, 0 when none does
RECURSIVE returningAlternative(_, _)
returningAlternative(i, st) ==
  IF statementAlternative(i, st).r # nullopt THEN i
  ELSE IF i = 17 THEN 0
  ELSE returningAlternative(i + 1, statementAlternative(i, st).st)

\* std::optional<ParseResult> Parser::parseStatement()
parseStatement(st) == statementAlternatives(1, st)

-----------------------------------------------------------------------------
(* Parser: the top level *)

\* The parser object over src once `Cur = L.nextToken();` has left l
primed(src, l) ==
  [Src |-> src, StrictMode |-> FALSE, Pos |-> l.Pos,
   InTemplateString |-> l.InTemplateString, Cur |-> l.tok, PrevTokenEnd |-> 0,
   LastTypeParsed |-> nullptr,
   halt |-> IF l.tok.kind = OutOfRange THEN "thrown" ELSE "none",
   adv |-> 0, cerr |-> FALSE, cout |-> FALSE]

\* explicit Parser(const std::string &src) : L(src) { Cur = L.nextToken(); }
Parser(src) == primed(src, nextToken(src, 0, FALSE, FALSE))

\* What the loop of parseSourceElements does with `auto s = parseX();`:
\* brk tells whether it breaks, stmt is the local of that name.
taken(s) ==
  [st |-> s.st, brk |-> s.r = nullopt,
   stmt |-> IF s.r = nullopt THEN nullptr ELSE s.r[1].stmt,
   err |-> IF s.r # nullopt /\ ~s.r[1].ok THEN <<s.r[1].error>> ELSE <<>>]

\* `parseEos();` after a statement was taken
thenEos(t) == IF t.brk THEN t ELSE [t EXCEPT !.st = parseEos(t.st).st]

\* The branches of the body of the loop of parseSourceElements
sourceElementBranch(st) ==
  IF K(st) = "Tok_Class" THEN taken(Call("parseClassDeclaration", st))
  ELSE IF K(st) = "Tok_Function" THEN taken(Call("parseFunctionDeclaration", st))
  ELSE IF K(st) \in {"Tok_Const", "Tok_Var"}
       THEN LET d == Call("parseVariableDeclaration", st)
            IN  [st |-> d.st, brk |-> ~d.ok, stmt |-> nullptr, err |-> <<>>]
  ELSE IF K(st) \in {"Tok_Import", "Tok_Export", "Tok_Print"}
       THEN LET t == taken(Call("parseStatement", st))
            IN  IF t.stmt # nullptr /\ t.stmt[1].node = "PrintStmt" THEN thenEos(t) ELSE t
  ELSE IF K(st) \in {"Tok_ConsoleLog", "Tok_ConsoleError", "Tok_ConsoleWarn",
                     "Tok_ConsoleInfo", "Tok_ConsoleSuccess"}
       THEN thenEos(taken(Call("parsePrintStatement", st)))
  ELSE IF K(st) \in {"Tok_Identifier", "Tok_LParen", "Tok_Number", "Tok_StringLiteral"}
       THEN LET t == taken(Call("parseExpressionStatement", st))
            IN  IF t.brk THEN [t EXCEPT !.st = Call("advance", t.st), !.brk = FALSE] ELSE t
  ELSE [st |-> Call("advance", st), brk |-> FALSE, stmt |-> nullptr, err |-> <<>>]

\* One iteration of the loop of parseSourceElements, the forced advance included
sourceElement(st) ==
  LET before == st.Cur
      b == Call("sourceElementBranch", st)
  IN  IF b.brk \/ b.st.halt # "none" THEN b
      ELSE IF b.st.Cur.pos = before.pos /\ b.st.Cur.kind = before.kind
           THEN [b EXCEPT !.st = Cerr(Call("advance", b.st))]
      ELSE b

\* The member function named f of the parser object st
Call(f, st) ==
  CASE f = "advance" -> advance(st)
    [] f = "parseIdentifier" -> parseIdentifier(st)
    [] f = "parseKeyword" -> parseKeyword(st)
    [] f = "parseReservedWord" -> parseReservedWord(st)
    [] f = "parseIdentifierName" -> parseIdentifierName(st)
    [] f = "parseImportedBinding" -> parseImportedBinding(st)
    [] f = "parseAliasName" -> parseAliasName(st)
    [] f = "parseImportDefault" -> parseImportDefault(st)
    [] f = "parseImportNamespace" -> parseImportNamespace(st)
    [] f = "parseImportFrom" -> parseImportFrom(st)
    [] f = "parseModuleExportName" -> parseModuleExportName(st)
    [] f = "parseExportAliasName" -> parseExportAliasName(st)
    [] f = "parseImportAliasName" -> parseImportAliasName(st)
    [] f = "parseExportModuleItems" -> parseExportModuleItems(st)
    [] f = "parseImportModuleItems" -> parseImportModuleItems(st)
    [] f = "parseImportFromBlock" -> parseImportFromBlock(st)
    [] f = "parseImportStatement" -> parseImportStatement(st)
    [] f = "parseExportFromBlock" -> parseExportFromBlock(st)
    [] f = "parseExportStatement" -> parseExportStatement(st)
    [] f = "parsePrintStatement" -> parsePrintStatement(st)
    [] f = "parseBlock" -> parseBlock(st)
    [] f = "parseStatementList" -> parseStatementList(st)
    [] f = "parseEmptyStatement" -> parseEmptyStatement(st)
    [] f = "handleOptionalHashBang" -> handleOptionalHashBang(st)
    [] f = "expressionSequenceLoop" -> expressionSequenceLoop(st)
    [] f = "parseExpressionSequence" -> parseExpressionSequence(st)
    [] f = "parseExpressionStatement" -> parseExpressionStatement(st)
    [] f = "parseIfStatement" -> parseIfStatement(st)
    [] f = "doStatement" -> doStatement(st)
    [] f = "whileStatement" -> whileStatement(st)
    [] f = "parseIterationStatement" -> parseIterationStatement(st)
    [] f = "parseContinueStatement" -> parseContinueStatement(st)
    [] f = "parseBreakStatement" -> parseBreakStatement(st)
    [] f = "parseReturnStatement" -> parseReturnStatement(st)
    [] f = "parseYieldStatement" -> parseYieldStatement(st)
    [] f = "parseWithStatement" -> parseWithStatement(st)
    [] f = "parseTryStatement" -> parseTryStatement(st)
    [] f = "tryHandlers" -> tryHandlers(st)
    [] f = "parseCatchProduction" -> parseCatchProduction(st)
    [] f = "parseFinallyProduction" -> parseFinallyProduction(st)
    [] f = "parseLabelledStatement" -> parseLabelledStatement(st)
    [] f = "parseCaseClause" -> parseCaseClause(st)
    [] f = "parseCaseClauses" -> parseCaseClauses(st)
    [] f = "parseDefaultClause" -> parseDefaultClause(st)
    [] f = "parseCaseBlock" -> parseCaseBlock(st)
    [] f = "parseSwitchStatement" -> parseSwitchStatement(st)
    [] f = "functionDeclarationCase" -> functionDeclarationCase(st)
    [] f = "declarationLoop" -> declarationLoop(st)
    [] f = "parseDeclaration" -> parseDeclaration(st)
    [] f = "parseFunctionDeclaration" -> parseFunctionDeclaration(st)
    [] f = "parsePrivateIdentifier" -> parsePrivateIdentifier(st)
    [] f = "parseClassElementName" -> parseClassElementName(st)
    [] f = "parseClassElement" -> parseClassElement(st)
    [] f = "classElementsLoop" -> classElementsLoop(st)
    [] f = "parseClassTail" -> parseClassTail(st)
    [] f = "parseClassDeclaration" -> parseClassDeclaration(st)
    [] f = "parseFunctionBody" -> parseFunctionBody(st)
    [] f = "takeParsedType" -> takeParsedType(st)
    [] f = "parsePrimary" -> parsePrimary(st)
    [] f = "parseType" -> parseType(st)
    [] f = "parseAssignable" -> parseAssignable(st)
    [] f = "parseVariableDeclaration" -> parseVariableDeclaration(st)
    [] f = "parseLet_" -> parseLet_(st)
    [] f = "parseVarModifier" -> parseVarModifier(st)
    [] f = "variableDeclarationListLoop" -> variableDeclarationListLoop(st)
    [] f = "parseVariableDeclarationList" -> parseVariableDeclarationList(st)
    [] f = "parseVariableStatement" -> parseVariableStatement(st)
    [] f = "parseFormalParameterArg" -> parseFormalParameterArg(st)
    [] f = "parseLastFormalParameterArg" -> parseLastFormalParameterArg(st)
    [] f = "parseFormalParameterList" -> parseFormalParameterList(st)
    [] f = "parseNumericLiteral" -> parseNumericLiteral(st)
    [] f = "parseBigintLiteral" -> parseBigintLiteral(st)
    [] f = "parseTemplateStringAtom" -> parseTemplateStringAtom(st)
    [] f = "templateAtomsLoop" -> templateAtomsLoop(st)
    [] f = "parseTemplateStringLiteral" -> parseTemplateStringLiteral(st)
    [] f = "parseLiteral" -> parseLiteral(st)
    [] f = "parseAssignmentOperator" -> parseAssignmentOperator(st)
    [] f = "parsePropertyName" -> parsePropertyName(st)
    [] f = "parseGetter" -> parseGetter(st)
    [] f = "parseSetter" -> parseSetter(st)
    [] f = "parseArgument" -> parseArgument(st)
    [] f = "argumentsLoop" -> argumentsLoop(st)
    [] f = "parseArguments" -> parseArguments(st)
    [] f = "parsePropertyAssignment" -> parsePropertyAssignment(st)
    [] f = "objectLiteralLoop" -> objectLiteralLoop(st)
    [] f = "parseObjectLiteral" -> parseObjectLiteral(st)
    [] f = "parseArrayElement" -> parseArrayElement(st)
    [] f = "commasLoop" -> commasLoop(st)
    [] f = "elementListLoop" -> elementListLoop(st)
    [] f = "parseElementList" -> parseElementList(st)
    [] f = "parseArrayLiteral" -> parseArrayLiteral(st)
    [] f = "parseArrowFunctionParameters" -> parseArrowFunctionParameters(st)
    [] f = "parseArrowFunctionBody" -> parseArrowFunctionBody(st)
    [] f = "parseAnonymousFunction" -> parseAnonymousFunction(st)
    [] f = "parsePrimaryExpression" -> parsePrimaryExpression(st)
    [] f = "postfixLoop" -> postfixLoop(st)
    [] f = "newExpression" -> newExpression(st)
    [] f = "parseSingleExpression" -> parseSingleExpression(st)
    [] f = "parseStatement" -> parseStatement(st)
    [] f = "sourceElementBranch" -> sourceElementBranch(st)
    [] f = "sourceElement" -> sourceElement(st)

\* The number of tokens parse() skips once it has reported trailing input
MaxRemaining == 20

\* parse(): `while (Cur.kind != Tok_EOF && count < 20) { advance(); ++count; }`
RECURSIVE remainingLoop(_, _)
remainingLoop(st, count) ==
  IF K(st) # "Tok_EOF" /\ count < MaxRemaining THEN remainingLoop(advance(st), count + 1)
  ELSE st

\* The number of tokens of a source: the nextToken() calls up to the first
\* that returns Tok_EOF, or that fails.
RECURSIVE tokensFrom(_, _, _)
tokensAfter(l, src, pos) ==
  IF l.tok.kind \in {"Tok_EOF", OutOfRange} THEN 0
  ELSE IF l.Pos = pos THEN 1
  ELSE 1 + tokensFrom(src, l.Pos, l.InTemplateString)
tokensFrom(src, pos, tpl) == tokensAfter(nextToken(src, pos, tpl, FALSE), src, pos)
TokenCount(src) == tokensFrom(src, 0, FALSE)

-----------------------------------------------------------------------------
(* The sources the client parses or scans *)

SP == " "

\* The words of a source, separated by sep
RECURSIVE Join(_, _)
Join(ws, sep) ==
  IF ws = <<>> THEN <<>>
  ELSE IF Len(ws) = 1 THEN ws[1]
  ELSE ws[1] \o sep \o Join(Tail(ws), sep)

SeqsUpTo(S, k) == UNION {[1..i -> S] : i \in 0..k}

Class_ == <<"c","l","a","s","s">>
Print_ == <<"p","r","i","n","t">>

\* Sources built only from the tokens class, {, }, ( and )
MaxClassWords == 5
ClassWords == {Class_, <<"{">>, <<"}">>, <<"(">>, <<")">>}
ClassSources == {Join(ws, <<SP>>) : ws \in SeqsUpTo(ClassWords, MaxClassWords)}
ClassExample == Join(<<Class_, <<"{">>, <<"(">>, <<"}">>, <<"}">> >>, <<SP>>)

\* std::to_string(i): the decimal digits of i >= 0
RECURSIVE to_string(_)
to_string(i) == IF i < 10 THEN <<DigitSeq[i + 1]>> ELSE to_string(i \div 10) \o <<DigitSeq[(i % 10) + 1]>>

\* std::stoi(val) for a val of decimal digits
RECURSIVE stoi(_)
stoi(val) ==
  IF val = <<>> THEN 0
  ELSE stoi(SubSeq(val, 1, Len(val) - 1)) * 10 + DigitValue(val[Len(val)])

\* print(N) for the plain decimal integer literals N
MaxInt == 120
PrintIntSource(i) == Print_ \o <<"(">> \o to_string(i) \o <<")">>
PrintIntSources == {PrintIntSource(i) : i \in 0..MaxInt}

\* print(a1, ..., an), with and without the closing parenthesis
MaxPrintArgs == 2
StringArgs == {<<DQ, "s", DQ>>, <<SQ, "t", "u", SQ>>}
NumberArgs == {<<"7">>, <<"4", "2">>, <<"1", ".", "5">>}
IdentifierArgs == {<<"x">>, <<"i", "d">>}
PrintArgs == StringArgs \cup NumberArgs \cup IdentifierArgs
PrintCall(as) == Print_ \o <<"(">> \o Join(as, <<",", SP>>)
PrintSource(as) == PrintCall(as) \o <<")">>
PrintSources == {PrintSource(as) : as \in SeqsUpTo(PrintArgs, MaxPrintArgs)}
\* the arguments parsePrintStatement takes: a string or an integer literal
ValidArgs == StringArgs \cup {<<"7">>, <<"4", "2">>}
UnclosedPrintSources == {PrintCall(as) : as \in SeqsUpTo(ValidArgs, MaxPrintArgs)}

\* Other sources: declarations, stray characters, unfinished statements
MaxMiscWords == 3
MiscWords == {PrintIntSource(1), Print_, <<"c","o","n","s","t">>,
              <<"c","o","n","s","t",SP,":">>, <<"5">>, <<"x">>,
              <<BSL>>, <<"#">>, <<DQ, BSL, "x">>,
              <<"i","m","p","o","r","t">>, <<"f","u","n","c","t","i","o","n">>}
MiscSources == {Join(ws, <<SP>>) : ws \in SeqsUpTo(MiscWords, MaxMiscWords)}

\* Programs of top-level print statements: each statement is followed by a
\* separator, the last one by a semicolon or by nothing
MaxPrintStmts == 3
PrintStmtArgs == {<< <<"7">> >>, << <<DQ, "s", DQ>> >>, << <<"4", "2">>, <<SQ, "t", "u", SQ>> >>}
Separators == {<<";">>, <<LF>>, <<";", SP>>}
RECURSIVE PrintProgram(_, _, _)
PrintProgram(ps, seps, end) ==
  IF Len(ps) = 1 THEN PrintSource(ps[1]) \o end
  ELSE PrintSource(ps[1]) \o seps[1] \o PrintProgram(Tail(ps), Tail(seps), end)
PrintPrograms ==
  UNION {[ps : [1..k -> PrintStmtArgs], seps : [1..(k - 1) -> Separators], end : {<<>>, <<";">>}]
         : k \in 1..MaxPrintStmts}
PrintProgramSources == {PrintProgram(p.ps, p.seps, p.end) : p \in PrintPrograms}

\* Template literals: `a${1}b`, `a`, `${1}`
TemplateExample == <<BQ, "a", "$", "{", "1", "}", "b", BQ>>
TemplateSources == {TemplateExample, <<BQ, "a", BQ>>, <<BQ, "$", "{", "1", "}", BQ>>}

\* Statement lists: a return followed, on the next line or on the same line,
\* by an expression statement or by nothing
Return_ == <<"r","e","t","u","r","n">>
ReturnThenLine == Return_ \o <<LF, "1", ";">>
ReturnOneLine == Return_ \o <<SP, "1", ";">>
\* A try statement without a handler, and with catch, finally, or both
Try_ == <<"t","r","y">>
Catch_ == <<"c","a","t","c","h">>
Finally_ == <<"f","i","n","a","l","l","y">>
EmptyBlock == <<SP, "{", SP, "}">>
TryAlone == Try_ \o EmptyBlock
TryCatch == Try_ \o EmptyBlock \o <<SP>> \o Catch_ \o EmptyBlock
TryFinally == Try_ \o EmptyBlock \o <<SP>> \o Finally_ \o EmptyBlock
TryCatchFinally == TryCatch \o <<SP>> \o Finally_ \o EmptyBlock
TryHandled == {TryCatch, TryFinally, TryCatchFinally,
               Try_ \o EmptyBlock \o <<SP>> \o Catch_ \o <<SP, "(", SP, ")">> \o EmptyBlock}
TrySources == {TryAlone} \cup TryHandled
StatementSources ==
  {Return_ \o sep \o e \o end : sep \in {<<LF>>, <<SP>>, <<CR, LF>>},
                                e \in {<<"1">>, <<"4", "2">>, <<DQ, "s", DQ>>},
                                end \in {<<>>, <<";">>}}
  \cup {Return_, Return_ \o <<";">>, <<"1", ";">>, <<";">>, <<"{", "}">>}
  \cup TrySources

\* if statements with print statements for branches
If_ == <<"i", "f", SP, "(", "t", "r", "u", "e", ")", SP>>
Else_ == <<SP, "e", "l", "s", "e", SP>>
PrintX == PrintSource(<< <<DQ, "x", DQ>> >>)
PrintY == PrintSource(<< <<DQ, "y", DQ>> >>)
IfElseExample == If_ \o PrintX \o <<";">> \o Else_ \o PrintY \o <<";">>
IfSources == {IfElseExample, If_ \o PrintX \o <<";">>, If_ \o PrintX \o Else_ \o PrintY}

\* Programs of one directive
ExportDefault == <<"e","x","p","o","r","t",SP,"d","e","f","a","u","l","t",SP,"5",";">>
ImportModule == <<"i","m","p","o","r","t",SP,DQ,"m","o","d",DQ,";">>
DirectiveSources == {ExportDefault, ImportModule}

\* Programs in which print("x") stands inside a block, a function body, a
\* class body or the body of a control-flow statement
InBlock == <<"{", SP>> \o PrintX \o <<SP, "}">>
InFunction == <<"f","u","n","c","t","i","o","n",SP,"(",")",SP>> \o InBlock
InClass == Class_ \o <<SP>> \o InBlock
InWhile == <<"w","h","i","l","e",SP,"(","t","r","u","e",")",SP>> \o PrintX \o <<";">>
InIf == If_ \o PrintX \o <<";">>
NestedPrintSources ==
  {InBlock, InFunction, InClass, InWhile, InIf, PrintY \o <<";", SP>> \o InBlock}

ParserSources == NestedPrintSources \cup ClassSources \cup PrintIntSources \cup PrintSources
                 \cup UnclosedPrintSources \cup MiscSources \cup PrintProgramSources
                 \cup TemplateSources \cup IfSources \cup DirectiveSources
                 \cup TrySources

\* The sources the client scans token by token
MaxLexLen == 3
LexBytes == {"a", "x", "u", "1", BSL, DQ, "xE2", SP, ">"}
MaxLexWords == 2
LexWords == {<<"s","t","a","t","i","c">>, <<"l","e","t">>, <<"0","7">>, Class_, <<"/","/">>}
\* Runs of the bytes of the operators that begin with '>'
MaxOperatorLen == 4
GreaterSources == SeqsUpTo({">", "="}, MaxOperatorLen)
\* Runs of the bytes of the operators of the other families
OperatorAlphabets == {{"=", ">"}, {"?", "=", "."}, {"<", "="}, {"+", "="}, {"-", "="},
                      {"*", "="}, {"&", "="}, {"|", "="}, {"^", "="}, {"!", "="}, {"%", "="}}
OperatorSources == UNION {SeqsUpTo(a, MaxOperatorLen) : a \in OperatorAlphabets}
\* A regular expression literal at the start of the file or after one of the
\* characters that let one follow
RegexPrefixes == {<<>>} \cup {<<c>> : c \in {"(", ",", "=", ":", "[", "!", "?", "{", "}"}}
RegexLiterals == {<<"/", "a", "/">>, <<"/", "a", "/", "g", "i">>, <<"/", BSL, "/", "/">>}
RegexSources == {pre \o re : pre \in RegexPrefixes, re \in RegexLiterals}
RegexExample == <<"(", "/", "a", "/", "g", "i">>
\* Numeric literals with the kind C16 gives each, alone or between spaces
NumericLiterals ==
  {[text |-> <<"1", ".", "5", "e", "1", "0">>, kind |-> "Tok_DecimalLiteral"],
   [text |-> <<"0", "x", "1", "F">>, kind |-> "Tok_HexIntegerLiteral"],
   [text |-> <<"0", "b", "1", "0", "1", "n">>, kind |-> "Tok_BigBinaryIntegerLiteral"],
   [text |-> <<"0", "o", "1", "7">>, kind |-> "Tok_OctalIntegerLiteral2"],
   [text |-> <<"0", "0", "7">>, kind |-> "Tok_OctalIntegerLiteral"]}
Paddings == {<<>>, <<SP>>}
NumericSources == {pre \o lit.text \o post : pre \in Paddings, lit \in NumericLiterals, post \in Paddings}

\* A '.' and what follows it: decimal digits with or without an exponent, or
\* something that is not a digit
DotDecimals == {<<".", "5">>, <<".", "5", "e", "3">>, <<".", "2", "5">>}
DotOthers == {<<".">>, <<".", "a">>, <<".", SP, "5">>, <<".", "(">>}
DotSources == DotDecimals \cup DotOthers

\* String literals: an opening quote and a body of plain characters,
\* backslashes, quotes and line terminators
MaxStringUnits == 3
LS == <<"xE2", "x80", "xA8">>   \* U+2028
PS == <<"xE2", "x80", "xA9">>   \* U+2029
StringUnits == {<<"a">>, <<BSL>>, <<DQ>>, <<LF>>, <<CR>>, LS, PS}
StringBodies == {Join(us, <<>>) : us \in SeqsUpTo(StringUnits, MaxStringUnits)}
\* A line continuation over two line feeds
ContinuationExample == <<DQ, BSL, LF, LF, DQ>>
StringSources == {<<DQ>> \o b : b \in StringBodies}
                 \cup {<<SQ, "a", SQ>>, <<SQ, "a", LF, SQ>>, <<SQ, DQ>>, <<SQ, BSL, LF, SQ>>}
                 \cup {ContinuationExample, <<SQ, BSL, CR, LF>> \o LS \o <<"a", SQ>>}

LexSources == SeqsUpTo(LexBytes, MaxLexLen) \cup StringSources
              \cup {Join(ws, <<SP>>) : ws \in SeqsUpTo(LexWords, MaxLexWords)}
              \cup GreaterSources \cup OperatorSources \cup RegexSources
              \cup NumericSources \cup DotSources
MaxCalls == MaxLexLen + 3

\* The sources a single production is applied to: runs of words the import,
\* argument, case and statement productions begin with
MaxAttemptWords == 3
From_ == <<"f","r","o","m">>
As_ == <<"a","s">>
Case_ == <<"c","a","s","e">>
AttemptWords == {From_, As_, Case_, Return_, <<";">>, <<"*">>, <<"(">>, <<"5">>}
\* The words parseIdentifier() takes, reserved words, and others, each alone
\* and before another token
IdentifierLikeWords == {<<"l","e","t">>, <<"a","s","y","n","c">>, As_, From_,
                        <<"y","i","e","l","d">>, <<"o","f">>}
ReservedWords == {<<"n","u","l","l">>, <<"t","r","u","e">>, Return_, Class_, <<"a","n","y">>}
OtherWords == {<<";">>, <<"5">>, <<"x">>}
IdentifierNameSources ==
  {w \o post : w \in IdentifierLikeWords \cup ReservedWords \cup OtherWords,
               post \in {<<>>, <<SP, ";">>}}
\* Type annotations: up to MaxTypeOperands primary types with `|` or `&`
\* between them.  The primary types are the forms parsePrimary can read from
\* what the lexer produces: a bracketed and a braced form, captured as raw
\* text, and a parenthesised type.
MaxTypeOperands == 3
BracketPrimary == [text |-> <<"[", "]">>, type |-> RawType(<<"[", "]">>)]
BracePrimary == [text |-> <<"{", "}">>, type |-> RawType(<<"{", "}">>)]
ParenPrimary == [text |-> <<"(", "[", "]", ")">>, type |-> RawType(<<"[", "]">>)]
TypePrimaries == {BracketPrimary, BracePrimary, ParenPrimary}
TypeOperators == {"|", "&"}
RECURSIVE TypeText(_, _)
TypeText(operands, ops) ==
  IF Len(operands) = 1 THEN operands[1].text
  ELSE operands[1].text \o <<SP, ops[1], SP>> \o TypeText(Tail(operands), Tail(ops))
TypeAnnotations ==
  UNION {{[operands |-> ps, ops |-> os] : ps \in [1..k -> TypePrimaries],
                                          os \in [1..(k - 1) -> TypeOperators]}
         : k \in 1..MaxTypeOperands}
TypeSources == {TypeText(a.operands, a.ops) : a \in TypeAnnotations}
AttemptSources == {Join(ws, <<SP>>) : ws \in SeqsUpTo(AttemptWords, MaxAttemptWords)}
                  \cup IdentifierNameSources \cup TypeSources \cup TrySources

-----------------------------------------------------------------------------
(* The state machine *)

\* No production has been called
NoEntry == [Cur |-> [kind |-> "none", text |-> <<>>, pos |-> 0, intValue |-> NoInt], Pos |-> 0, PrevTokenEnd |-> 0, adv |-> 0]

NoToken == [kind |-> "none", text |-> <<>>, pos |-> 0, intValue |-> NoInt]

\* The parser object the variables hold
This ==
  [Src |-> Src, StrictMode |-> StrictMode, Pos |-> Pos,
   InTemplateString |-> InTemplateString, Cur |-> Cur, PrevTokenEnd |-> PrevTokenEnd,
   LastTypeParsed |-> LastTypeParsed, halt |-> halt, adv |-> adv, cerr |-> cerr,
   cout |-> cout]

\* The variables take the parser object st
Becomes(st) ==
  /\ Pos' = st.Pos /\ InTemplateString' = st.InTemplateString
  /\ Cur' = st.Cur /\ PrevTokenEnd' = st.PrevTokenEnd
  /\ LastTypeParsed' = st.LastTypeParsed
  /\ halt' = st.halt /\ adv' = st.adv /\ cerr' = st.cerr /\ cout' = st.cout

\* Where control is once the parser object is st: an exception nothing
\* catches ends the process, a loop that cannot end keeps it.
Left(st, next) ==
  IF st.halt = "thrown" THEN "terminated" ELSE IF st.halt = "hung" THEN "hung" ELSE next

\* The variables hold the parser object st, just constructed
Constructed(st) ==
  /\ Src = st.Src /\ StrictMode = st.StrictMode
  /\ Pos = st.Pos /\ InTemplateString = st.InTemplateString
  /\ Cur = st.Cur /\ PrevTokenEnd = st.PrevTokenEnd
  /\ LastTypeParsed = st.LastTypeParsed
  /\ halt = st.halt /\ adv = st.adv /\ cerr = st.cerr /\ cout = st.cout
  /\ pc = Left(st, "parse")
  /\ stmts = <<>> /\ errors = <<>> /\ se = nullopt /\ result = <<>>
  /\ tok = NoToken /\ prevKind = "none" /\ prevPos = 0 /\ calls = 0
  /\ prod = "none" /\ entry = NoEntry /\ matched = FALSE

\* The client has constructed a Parser over src: Parser p(src);
ParserInit == \E src \in ParserSources : Constructed(Parser(src))

\* The client has constructed a Lexer over src: Lexer l(src, strict);
LexerInit ==
  \E src \in LexSources, strict \in BOOLEAN :
    /\ Src = src /\ StrictMode = strict /\ Pos = 0 /\ InTemplateString = FALSE
    /\ Cur = NoToken /\ PrevTokenEnd = 0 /\ LastTypeParsed = nullptr
    /\ halt = "none" /\ adv = 0 /\ cerr = FALSE /\ cout = FALSE
    /\ pc = "lex"
    /\ stmts = <<>> /\ errors = <<>> /\ se = nullopt /\ result = <<>>
    /\ tok = NoToken /\ prevKind = "none" /\ prevPos = 0 /\ calls = 0
    /\ prod = "none" /\ entry = NoEntry /\ matched = FALSE

\* A Parser over src stands at the first statement of a statement list
StatementListInit ==
  \E src \in StatementSources :
    /\ Src = src /\ StrictMode = FALSE
    /\ Pos = Parser(src).Pos /\ InTemplateString = FALSE
    /\ Cur = Parser(src).Cur /\ PrevTokenEnd = 0 /\ LastTypeParsed = nullptr
    /\ halt = "none" /\ adv = 0 /\ cerr = FALSE /\ cout = FALSE
    /\ pc = "statementList"
    /\ stmts = <<>> /\ errors = <<>> /\ se = nullopt /\ result = <<>>
    /\ tok = NoToken /\ prevKind = "none" /\ prevPos = 0 /\ calls = 0
    /\ prod = "none" /\ entry = NoEntry /\ matched = FALSE

\* A Parser over src is about to apply one production to its first token
AttemptInit ==
  \E src \in AttemptSources :
    /\ Src = src /\ StrictMode = FALSE
    /\ Pos = Parser(src).Pos /\ InTemplateString = FALSE
    /\ Cur = Parser(src).Cur /\ PrevTokenEnd = 0 /\ LastTypeParsed = nullptr
    /\ halt = "none" /\ adv = 0 /\ cerr = FALSE /\ cout = FALSE
    /\ pc = "attempt"
    /\ stmts = <<>> /\ errors = <<>> /\ se = nullopt /\ result = <<>>
    /\ tok = NoToken /\ prevKind = "none" /\ prevPos = 0 /\ calls = 0
    /\ prod = "none" /\ entry = NoEntry /\ matched = FALSE

Init == ParserInit \/ LexerInit \/ StatementListInit \/ AttemptInit

\* The call of nextToken() has left l: the client has the token, or the
\* exception has ended it
Scanned(l) ==
  /\ tok' = l.tok /\ prevKind' = tok.kind /\ prevPos' = Pos /\ calls' = calls + 1
  /\ IF l.tok.kind = OutOfRange
     THEN /\ halt' = "thrown" /\ pc' = "lexTerminated"
          /\ UNCHANGED lexerVars
     ELSE /\ Pos' = l.Pos /\ InTemplateString' = l.InTemplateString
          /\ UNCHANGED <<halt, pc>>

\* The client calls Lexer::nextToken()
NextToken ==
  /\ pc = "lex" /\ calls < MaxCalls
  /\ Scanned(nextToken(Src, Pos, InTemplateString, StrictMode))
  /\ UNCHANGED <<Src, StrictMode, parserVars, parseVars, attemptVars>>

\* Parser::parse(), up to the call of parseSourceElements
\* `if (auto r = handleOptionalHashBang()) return *r;`, the call having left h
HashBangHandled(h) ==
  /\ Becomes(h.st)
  /\ IF h.st.halt # "none" THEN pc' = Left(h.st, "parse") /\ UNCHANGED result
     ELSE IF h.r # nullopt THEN pc' = "returned" /\ result' = h.r
     ELSE pc' = "sourceElements" /\ UNCHANGED result

ParseHashBang ==
  /\ pc = "parse"
  /\ HashBangHandled(Call("handleOptionalHashBang", This))
  /\ UNCHANGED <<Src, StrictMode, stmts, errors, se, clientVars, attemptVars>>

\* An iteration that puts the statement in front of stmts instead of
\* `stmts.push_back(std::move(stmt));`
IteratedPushFront(b) ==
  LET stuck == ~b.brk /\ b.stmt = nullptr /\ Same(This, b.st)
  IN  /\ Becomes(IF stuck THEN Hang(b.st) ELSE b.st)
      /\ IF b.st.halt # "none" THEN pc' = Left(b.st, "parse") /\ UNCHANGED <<stmts, errors>>
         ELSE IF b.brk THEN pc' = "break" /\ UNCHANGED <<stmts, errors>>
         ELSE /\ pc' = IF stuck THEN "hung" ELSE "sourceElements"
              /\ stmts' = b.stmt \o stmts
              /\ errors' = errors \o b.err

\* Parser::parseSourceElements(), one iteration of its loop
\* The iteration has left b: the loop breaks, or goes on with the
\* statement pushed to stmts
Iterated(b) ==
  LET stuck == ~b.brk /\ b.stmt = nullptr /\ Same(This, b.st)
  IN  /\ Becomes(IF stuck THEN Hang(b.st) ELSE b.st)
      /\ IF b.st.halt # "none" THEN pc' = Left(b.st, "parse") /\ UNCHANGED <<stmts, errors>>
         ELSE IF b.brk THEN pc' = "break" /\ UNCHANGED <<stmts, errors>>
         ELSE /\ pc' = IF stuck THEN "hung" ELSE "sourceElements"
              /\ stmts' = stmts \o b.stmt
              /\ errors' = errors \o b.err

SourceElement ==
  /\ pc = "sourceElements" /\ Cur.kind # "Tok_EOF"
  /\ Iterated(Call("sourceElement", This))
  /\ UNCHANGED <<Src, StrictMode, se, result, clientVars, attemptVars>>

\* Parser::parseSourceElements(), from the exit of its loop to its return
ReturnSourceElements ==
  /\ pc = "break" \/ (pc = "sourceElements" /\ Cur.kind = "Tok_EOF")
  /\ se' = IF stmts = <<>> THEN nullopt ELSE <<ParseResult(TRUE, "", <<Program(stmts)>>)>>
  /\ pc' = "epilogue"
  /\ UNCHANGED <<Src, StrictMode, lexerVars, parserVars, halt, stmts, errors, result, clientVars, attemptVars>>

\* Parser::parse(), from the return of parseSourceElements to its own
\* `return error("expected EOF after source elements");`, the loop over the
\* remaining tokens having left st
TrailingInput(st) ==
  /\ Becomes(st)
  /\ pc' = Left(st, "returned")
  /\ result' = IF st.halt # "none" THEN result
               ELSE <<error("expected EOF after source elements")>>

ParseReturn ==
  /\ pc = "epilogue"
  /\ IF se # nullopt /\ Cur.kind # "Tok_EOF"
     THEN TrailingInput(remainingLoop(Cerr(This), 0))
     ELSE /\ result' = IF se # nullopt THEN se ELSE <<Success>>
          /\ pc' = "returned"
          /\ UNCHANGED <<lexerVars, parserVars, halt>>
  /\ UNCHANGED <<Src, StrictMode, stmts, errors, se, clientVars, attemptVars>>

\* Parser::parseStatementList(), one iteration of its loop, the call of
\* parseStatement having left x; se holds the local last
Listed(x) ==
  LET stuck == x.r # nullopt /\ K(x.st) \notin {"Tok_RBrace", "Tok_EOF"} /\ Same(This, x.st)
  IN  /\ Becomes(IF stuck THEN Hang(x.st) ELSE x.st)
      /\ calls' = calls + 1
      /\ IF x.st.halt # "none" THEN pc' = Left(x.st, "statementList") /\ UNCHANGED se
         ELSE IF x.r = nullopt THEN pc' = "statementListReturned" /\ UNCHANGED se
         ELSE /\ se' = x.r
              /\ pc' = IF K(x.st) \in {"Tok_RBrace", "Tok_EOF"} THEN "statementListReturned"
                       ELSE IF stuck THEN "hung" ELSE "statementList"

StatementListIteration ==
  /\ pc = "statementList"
  /\ Listed(Call("parseStatement", This))
  /\ UNCHANGED <<Src, StrictMode, stmts, errors, result, tok, prevKind, prevPos, attemptVars>>

\* The productions that answer with a bool
BoolProductions ==
  {"parseIdentifier", "parseKeyword", "parseReservedWord", "parseIdentifierName",
   "parseImportedBinding", "parseAliasName", "parseImportDefault", "parseImportNamespace",
   "parseImportFrom", "parseModuleExportName", "parseExportAliasName",
   "parseImportAliasName", "parseExportModuleItems", "parseImportModuleItems",
   "parseImportFromBlock", "parseExportFromBlock", "parseExpressionSequence",
   "parseCaseClause", "parseCaseClauses", "parseDefaultClause", "parseCaseBlock",
   "parsePrivateIdentifier", "parseClassElementName", "parseClassElement",
   "parseClassTail", "parseFunctionBody", "parseAssignable", "parseVariableDeclaration",
   "parseLet_", "parseVarModifier", "parseVariableDeclarationList",
   "parseFormalParameterArg", "parseLastFormalParameterArg", "parseFormalParameterList",
   "parseNumericLiteral", "parseBigintLiteral", "parseTemplateStringAtom",
   "parseTemplateStringLiteral", "parseLiteral", "parseAssignmentOperator",
   "parsePropertyName", "parseGetter", "parseSetter", "parseArgument", "parseArguments",
   "parsePropertyAssignment", "parseObjectLiteral", "parseArrayElement",
   "parseElementList", "parseArrayLiteral", "parseArrowFunctionParameters",
   "parseArrowFunctionBody", "parseAnonymousFunction", "parseSingleExpression",
   "parseType", "parseCatchProduction", "parseFinallyProduction"}
\* The productions that answer with an optional ParseResult
OptionalProductions ==
  {"parseImportStatement", "parseExportStatement", "parsePrintStatement", "parseBlock",
   "parseStatementList", "parseEmptyStatement", "handleOptionalHashBang",
   "parseExpressionStatement", "parseIfStatement", "parseIterationStatement",
   "parseContinueStatement", "parseBreakStatement", "parseReturnStatement",
   "parseYieldStatement", "parseWithStatement", "parseLabelledStatement",
   "parseSwitchStatement", "parseDeclaration", "parseFunctionDeclaration",
   "parseClassDeclaration", "parseVariableStatement", "parseStatement",
   "parseTryStatement"}

\* The production f has answered x
Attempted(f, x) ==
  /\ Becomes(x.st)
  /\ prod' = f
  /\ entry' = [Cur |-> Cur, Pos |-> Pos, PrevTokenEnd |-> PrevTokenEnd, adv |-> adv]
  /\ matched' = IF f \in BoolProductions THEN x.ok ELSE x.r # nullopt
  /\ pc' = Left(x.st, "attempted")

\* One production is applied to the parser object
Attempt ==
  /\ pc = "attempt"
  /\ \E f \in BoolProductions \cup OptionalProductions : Attempted(f, Call(f, This))
  /\ UNCHANGED <<Src, StrictMode, parseVars, clientVars>>

Next == NextToken \/ ParseHashBang \/ SourceElement \/ ReturnSourceElements \/ ParseReturn
        \/ StatementListIteration \/ Attempt

Spec == Init /\ [][Next]_vars

-----------------------------------------------------------------------------
(* Properties *)

\* The results parse() has returned: none or one
Returned == {result[i] : i \in 1..Len(result)}

\* C1: every result that parse() returns is either successful (ok, an empty
\* message, with or without a tree) or failed (not ok, a non-empty message and
\* no tree).
ResultShape ==
  \A r \in Returned :
    \/ r.ok /\ r.error = ""
    \/ ~r.ok /\ r.error # "" /\ r.stmt = nullptr
ResultShapeWitness ==
  \E r \in Returned : ~r.ok /\ stmts # <<>> /\ Cur.kind = "Tok_EOF"

\* C2: for every source parse() terminates with a result: it is never caught
\* in a loop that does not end, and nothing ends it before it returns.
ParseTerminates == pc \notin {"hung", "terminated"}

\* C3: for every source built from the tokens class, {, }, ( and ), the
\* input `class { ( } }` among them, parse() terminates: no loop of it is
\* stuck, nothing ends it before it returns, every round of its top-level loop
\* that stays in the loop advances, and the advances it makes never exceed
\* twice the tokens of the source plus three.
ClassInputsTerminate ==
  /\ [](Src \in ClassSources =>
          pc \notin {"hung", "terminated"} /\ adv <= 2 * TokenCount(Src) + 3)
  /\ [][(Src \in ClassSources /\ pc = "sourceElements" /\ pc' = "sourceElements")
          => adv' > adv]_vars
ClassInputsTerminateWitness ==
  pc = "returned" /\ Src = ClassExample /\ adv >= TokenCount(Src) /\ cerr

\* C4: once a nextToken() call has returned the EOF token, the next call
\* returns an EOF token too and leaves the cursor where it was.
EofIsIdempotent ==
  prevKind = "Tok_EOF" => tok.kind = "Tok_EOF" /\ Pos = prevPos /\ halt = "none"
EofIsIdempotentWitness ==
  prevKind = "Tok_EOF" /\ tok.kind = "Tok_EOF" /\ calls >= 3 /\ Pos = Size(Src)

\* C5: the lexer never fails hard: no nextToken() call throws, and the cursor
\* never moves past the end of the source.
LexerNeverFailsHard == halt # "thrown" /\ Pos <= Size(Src)

\* C6: when a production called by the top-level loop has returned a failed
\* result, parse() returns a failed result that carries one of those messages
\* and no tree.
ErrorsSurface ==
  \A r \in Returned :
    errors # <<>> =>
      ~r.ok /\ r.stmt = nullptr /\ (\E i \in 1..Len(errors) : r.error = errors[i])

\* C7: for `print(` followed by valid arguments and the end of the input,
\* parse() returns a failed result with a message and no tree.
UnclosedPrintFails ==
  \A r \in Returned :
    Src \in UnclosedPrintSources => ~r.ok /\ r.error # "" /\ r.stmt = nullptr

\* C8: when parse() returns a successful result the whole source has been
\* consumed: the lookahead token is EOF.
SuccessAtEof == \A r \in Returned : r.ok => Cur.kind = "Tok_EOF"

\* C9: for `print(N)`, N a plain decimal integer literal, parse() succeeds with
\* a Program of one PrintStmt of one LiteralExpr whose text is the digits of N,
\* and reading that text back as an integer gives N.
PrintIntegerRoundTrip ==
  \A i \in 0..MaxInt : \A r \in Returned :
    Src = PrintIntSource(i) =>
      /\ r.ok /\ r.error = "" /\ r.stmt # nullptr
      /\ r.stmt[1].node = "Program" /\ Len(r.stmt[1].statements) = 1
      /\ LET p == r.stmt[1].statements[1]
         IN  /\ p.node = "PrintStmt" /\ Len(p.args) = 1
             /\ p.args[1].node = "LiteralExpr"
             /\ p.args[1].value = to_string(i)
             /\ stoi(p.args[1].value) = i
PrintIntegerRoundTripWitness ==
  \E r \in Returned : Src = PrintIntSource(42) /\ r.stmt # nullptr /\ Cur.kind = "Tok_EOF"

\* What C10 expects of an argument: a string without its quotes, the raw
\* text of a number or of an identifier
ExpectedValue(a) == IF a \in StringArgs THEN SubSeq(a, 2, Len(a) - 1) ELSE a

\* C10: for `print(a1, ..., an)`, each ai a string literal, a numeric literal
\* or an identifier, the print production succeeds with a PrintStmt of the n
\* LiteralExpr arguments in source order, its origin the kind of the token
\* that introduced the statement.
PrintArgumentsKept ==
  \A as \in SeqsUpTo(PrintArgs, MaxPrintArgs) :
    (pc = "returned" /\ Src = PrintSource(as)) =>
      /\ errors = <<>>
      /\ Len(stmts) = 1
      /\ stmts[1].node = "PrintStmt" /\ stmts[1].origin = "Tok_Print"
      /\ Len(stmts[1].args) = Len(as)
      /\ \A i \in 1..Len(as) :
           /\ stmts[1].args[i].node = "LiteralExpr"
           /\ stmts[1].args[i].value = ExpectedValue(as[i])

\* The PrintStmt C11 expects for the statement print(a1, ..., an)
ExpectedPrintStmt(as) == PrintStmt([i \in 1..Len(as) |-> LiteralExpr(ExpectedValue(as[i]))], "Tok_Print")

\* Each program of print statements with the statements C11 expects of it
PrintProgramCases ==
  {[src |-> PrintProgram(p.ps, p.seps, p.end),
    statements |-> [i \in 1..Len(p.ps) |-> ExpectedPrintStmt(p.ps[i])]] : p \in PrintPrograms}

\* C11: for a source of n top-level print statements separated by `;` or by
\* line terminators, parse() returns a successful result whose tree is a
\* Program holding exactly the n PrintStmt nodes, in source order.
PrintStatementsInOrder ==
  pc = "returned" =>
    \A c \in PrintProgramCases : Src = c.src => result = <<ParseResult(TRUE, "", <<Program(c.statements)>>)>>
PrintStatementsInOrderWitness ==
  /\ pc = "returned"
  /\ Src = PrintProgram(<< << <<"7">> >>, << <<DQ, "s", DQ>> >>, << <<"7">> >> >>, << <<LF>>, <<";">> >>, <<>>)
  /\ Len(result) = 1 /\ result[1].ok /\ Len(result[1].stmt[1].statements) = 3

\* The operators of ops that are a prefix of the input s from position p on
PrefixesAt(ops, s, p) == {o \in ops : follows(s, p, o.text)}
\* The longest of them
LongestAt(ops, s, p) ==
  CHOOSE o \in PrefixesAt(ops, s, p) : \A q \in PrefixesAt(ops, s, p) : Len(q.text) <= Len(o.text)
\* The call of nextToken() that the state records found the input starting
\* at prevPos with one of the bytes of first, and returned tok
StartedWith(first) ==
  pc = "lex" /\ calls >= 1 /\ prevPos < Size(Src) /\ At(Src, prevPos) \in first
\* tok is the longest operator of ops at prevPos, and exactly its bytes are consumed
Munched(ops) ==
  LET o == LongestAt(ops, Src, prevPos)
  IN  tok.kind = o.kind /\ tok.text = o.text /\ tok.pos = prevPos /\ Pos = prevPos + Len(o.text)

GreaterOperators ==
  {[text |-> <<">", ">", ">", "=">>, kind |-> "Tok_RightShiftLogicalAssign"],
   [text |-> <<">", ">", ">">>, kind |-> "Tok_RightShiftLogical"],
   [text |-> <<">", ">", "=">>, kind |-> "Tok_RightShiftArithmeticAssign"],
   [text |-> <<">", ">">>, kind |-> "Tok_RightShiftArithmetic"],
   [text |-> <<">", "=">>, kind |-> "Tok_GreaterThanEquals"],
   [text |-> <<">">>, kind |-> "Tok_MoreThan"]}

\* C12: when the remaining input starts with `>`, nextToken() returns the
\* longest of `>>>=`, `>>>`, `>>=`, `>>`, `>=`, `>` that is a prefix of the
\* remaining input and consumes exactly that many characters; so `>>>` is one
\* unsigned-right-shift token and `>>>>` is `>>>` followed by `>`.
GreaterMaximalMunch ==
  (Src \in GreaterSources /\ StartedWith({">"})) => Munched(GreaterOperators)

OtherOperators ==
  {[text |-> <<"=", ">">>, kind |-> "Tok_Arrow"],
   [text |-> <<"=", "=", "=">>, kind |-> "Tok_IdentityEquals"],
   [text |-> <<"=", "=">>, kind |-> "Tok_Equals"],
   [text |-> <<"=">>, kind |-> "Tok_Assign"],
   [text |-> <<"?", "?", "=">>, kind |-> "Tok_NullishCoalescingAssign"],
   [text |-> <<"?", "?">>, kind |-> "Tok_NullCoalesce"],
   [text |-> <<"?", ".">>, kind |-> "Tok_QuestionDot"],
   [text |-> <<"?">>, kind |-> "Tok_Question"],
   [text |-> <<"<", "<", "=">>, kind |-> "Tok_LeftShiftArithmeticAssign"],
   [text |-> <<"<", "<">>, kind |-> "Tok_LeftShiftArithmetic"],
   [text |-> <<"<", "=">>, kind |-> "Tok_LessThanEquals"],
   [text |-> <<"<">>, kind |-> "Tok_LessThan"],
   [text |-> <<"+", "=">>, kind |-> "Tok_PlusAssign"],
   [text |-> <<"+", "+">>, kind |-> "Tok_PlusPlus"],
   [text |-> <<"+">>, kind |-> "Tok_Plus"],
   [text |-> <<"-", "=">>, kind |-> "Tok_MinusAssign"],
   [text |-> <<"-", "-">>, kind |-> "Tok_MinusMinus"],
   [text |-> <<"-">>, kind |-> "Tok_Minus"],
   [text |-> <<"*", "*", "=">>, kind |-> "Tok_PowerAssign"],
   [text |-> <<"*", "*">>, kind |-> "Tok_Power"],
   [text |-> <<"*", "=">>, kind |-> "Tok_MultiplyAssign"],
   [text |-> <<"*">>, kind |-> "Tok_Multiply"],
   [text |-> <<"&", "&">>, kind |-> "Tok_LogicalAnd"],
   [text |-> <<"&", "=">>, kind |-> "Tok_BitAndAssign"],
   [text |-> <<"&">>, kind |-> "Tok_BitAnd"],
   [text |-> <<"|", "|">>, kind |-> "Tok_LogicalOr"],
   [text |-> <<"|", "=">>, kind |-> "Tok_BitOrAssign"],
   [text |-> <<"|">>, kind |-> "Tok_BitOr"],
   [text |-> <<"^", "=">>, kind |-> "Tok_BitXorAssign"],
   [text |-> <<"^">>, kind |-> "Tok_BitXor"],
   [text |-> <<"!", "=", "=">>, kind |-> "Tok_IdentityNotEquals"],
   [text |-> <<"!", "=">>, kind |-> "Tok_NotEquals"],
   [text |-> <<"!">>, kind |-> "Tok_Not"],
   [text |-> <<"%", "=">>, kind |-> "Tok_ModulusAssign"],
   [text |-> <<"%">>, kind |-> "Tok_Modulus"]}
OtherFirstBytes == {"=", "?", "<", "+", "-", "*", "&", "|", "^", "!", "%"}

\* C13: when the remaining input begins with one of = ? < + - * & | ^ ! %,
\* nextToken() returns the longest operator of that family that is a prefix
\* of the remaining input and consumes exactly its characters.
OperatorMaximalMunch ==
  (Src \in OperatorSources /\ StartedWith(OtherFirstBytes)) => Munched(OtherOperators)
OperatorMaximalMunchWitness ==
  /\ Src = <<"?", "?", "=", "?">> /\ StartedWith({"?"}) /\ prevPos = 0
  /\ tok.kind = "Tok_NullishCoalescingAssign" /\ Pos = 3

\* C14: when a `/` is met after one of ( , = : [ ! ? { } or at the start of
\* the file, and a valid body closed by an unescaped `/` follows, nextToken()
\* returns one regular-expression-literal token covering the body and the
\* flags; `(/a/gi` lexes as `(` followed by the regex literal `/a/gi`.
RegexAfterPunctuator ==
  \A pre \in RegexPrefixes, re \in RegexLiterals :
    (Src = pre \o re /\ StartedWith({"/"}) /\ prevPos = Len(pre)) =>
      /\ tok.kind = "Tok_RegularExpressionLiteral" /\ tok.text = re
      /\ tok.pos = Len(pre) /\ Pos = Size(Src)

\* The parser holds its k-th token (the constructor's being the first) until
\* its k-th call of advance()
ParserHolds(k) == pc \notin {"lex", "lexTerminated"} /\ halt = "none" /\ adv = k - 1

\* The first tokens C15 expects for TemplateExample
TemplateTokens ==
  << [kind |-> "Tok_BackTick", text |-> <<BQ>>],
     [kind |-> "Tok_TemplateStringAtom", text |-> <<"a">>],
     [kind |-> "Tok_TemplateStringStartExpression", text |-> <<"$", "{">>],
     [kind |-> "Tok_Integer", text |-> <<"1">>] >>

\* C15: for the source `a${1}b` enclosed in backticks the tokens the lexer
\* delivers to the parser are, in order, the backtick, the template atom "a",
\* the start-expression `${`, the tokens of the expression `1`, the template
\* atom "b" and the backtick: the lexer is in template-atom mode after the
\* opening backtick, leaves it at `${` and re-enters it at the matching `}`.
TemplateTokenOrder ==
  Src = TemplateExample =>
    /\ \A k \in 1..Len(TemplateTokens) :
         ParserHolds(k) => Cur.kind = TemplateTokens[k].kind /\ Cur.text = TemplateTokens[k].text
    /\ (pc \notin {"lex", "lexTerminated"} /\ Cur.pos = 6 /\ adv > 0) =>
         Cur.kind = "Tok_TemplateStringAtom" /\ Cur.text = <<"b">>
    /\ ParserHolds(2) => InTemplateString
    /\ ParserHolds(3) => ~InTemplateString

\* C16: in non-strict mode each of `1.5e10`, `0x1F`, `0b101n`, `0o17`, `007`
\* lexes as exactly one token before EOF, of the kinds decimal literal, hex
\* integer, big binary integer, `0o` octal integer and legacy octal integer
\* (five distinct kinds), whose text is the whole literal; lexing that text
\* again gives a token of the same kind and the same text.
NumericKindsRoundTrip ==
  \A pre \in Paddings, lit \in NumericLiterals, post \in Paddings :
    (Src = pre \o lit.text \o post /\ ~StrictMode /\ pc = "lex") =>
      /\ calls = 1 =>
           /\ tok.kind = lit.kind /\ tok.text = lit.text /\ tok.pos = Len(pre)
           /\ nextToken(tok.text, 0, FALSE, FALSE).tok.kind = tok.kind
           /\ nextToken(tok.text, 0, FALSE, FALSE).tok.text = tok.text
      /\ calls = 2 => tok.kind = "Tok_EOF"
NumericKindsRoundTripWitness ==
  /\ Src = <<SP, "0", "b", "1", "0", "1", "n", SP>> /\ ~StrictMode /\ pc = "lex" /\ calls = 2
  /\ prevKind = "Tok_BigBinaryIntegerLiteral" /\ tok.kind = "Tok_EOF"
  /\ Cardinality({lit.kind : lit \in NumericLiterals}) = 5

\* C17: a `.` immediately followed by a decimal digit starts a decimal
\* literal returned as one token covering the dot, the digits and any
\* exponent (`.5` is one decimal-literal token); a `.` not followed by a digit
\* is the dot punctuator, with only that one character consumed.
LeadingDotDecimal ==
  (Src \in DotSources /\ StartedWith({"."}) /\ prevPos = 0) =>
    IF Src \in DotDecimals
    THEN tok.kind = "Tok_DecimalLiteral" /\ tok.text = Src /\ Pos = Size(Src)
    ELSE tok.kind = "Tok_Dot" /\ tok.text = <<".">> /\ Pos = 1

\* The statement list has gone through k iterations over the source src
Listing(src, k) == Src = src /\ pc \in {"statementList", "statementListReturned"} /\ calls = k

\* C18: for `return`, a line terminator and `1;` the return statement
\* consumes only the keyword and `1;` is parsed as a separate expression
\* statement; for `return 1;` on one line the return statement consumes the
\* expression and the `;`.  No other production consumes a token.
ReturnHonoursLineTerminator ==
  /\ Listing(ReturnThenLine, 1) =>
       /\ returningAlternative(1, Parser(Src)) = 14
       /\ This = Call("parseReturnStatement", Parser(Src)).st
       /\ Cur.kind = "Tok_Integer" /\ Cur.pos = 7 /\ adv = 1
  /\ Listing(ReturnThenLine, 2) =>
       /\ returningAlternative(1, Call("parseReturnStatement", Parser(Src)).st) = 9
       /\ Cur.kind = "Tok_EOF"
  /\ Listing(ReturnOneLine, 1) =>
       /\ returningAlternative(1, Parser(Src)) = 14
       /\ This = Call("parseReturnStatement", Parser(Src)).st
       /\ Cur.kind = "Tok_EOF"

\* The statements of the tree of the result r, none when it has no tree
StatementsOf(r) == IF r.stmt = nullptr THEN <<>> ELSE r.stmt[1].statements

\* C19: for `if (true) print("x"); else print("y");` parse() returns success
\* and the else branch is consumed as part of the if statement: print("y")
\* is not an entry of its own in the Program's statement list.
ElseBelongsToIf ==
  (Src = IfElseExample /\ pc = "returned") =>
    \A r \in Returned :
      /\ r.ok
      /\ \A i \in 1..Len(StatementsOf(r)) :
           StatementsOf(r)[i] # PrintStmt(<<LiteralExpr(<<"y">>)>>, "Tok_Print")

\* C20: for each of `export default 5;` and `import "mod";` parse() returns a
\* successful result that carries no tree (ok, an empty message, no tree); no
\* production fails on the way and the parser neither hangs nor throws.
DirectivesYieldNoTree ==
  Src \in DirectiveSources =>
    /\ pc \notin {"hung", "terminated"}
    /\ errors = <<>>
    /\ pc = "returned" => result = <<ParseResult(TRUE, "", nullptr)>>
DirectivesYieldNoTreeWitness ==
  /\ Src = ExportDefault /\ pc = "returned" /\ result = <<ParseResult(TRUE, "", nullptr)>>
  /\ Cur.kind = "Tok_EOF" /\ adv = 4

\* Control is in, or has left, a call of parse()
InParse == pc \notin {"lex", "lexTerminated", "statementList", "statementListReturned",
                      "attempt", "attempted"}

\* C21: during any call of parse(), whatever the input and whether it ends
\* in success or failure, nothing is written to standard output or to
\* standard error.
ParserIsSilent == InParse => ~cerr /\ ~cout

\* A production that answered no match after it consumed tokens
ConsumedNoMatch == pc = "attempted" /\ ~matched /\ adv > entry.adv

\* C22: every production that answers no match (false, or an empty optional) after it consumed one or more tokens leaves the lookahead Cur equal to its value on entry.
BacktrackingRestoresCur == ConsumedNoMatch => Cur = entry.Cur

\* A production that consumed tokens, put the entry token back in Cur and
\* answered no match
Backtracked == ConsumedNoMatch /\ Cur = entry.Cur
\* The token the next advance() will read when the lexer stands at pos
TokenAhead(pos) == nextToken(Src, pos, InTemplateString, StrictMode).tok

\* C26: after a production consumed tokens, restored Cur and answered no match, the tokens consumed afterwards are the tokens of the source that follow the restored lookahead, and PrevTokenEnd is again what it was before the attempt.
BacktrackingLosesNoInput ==
  Backtracked => TokenAhead(Pos) = TokenAhead(entry.Pos) /\ PrevTokenEnd = entry.PrevTokenEnd

\* parseIdentifierName() has been applied
NameAttempted == pc = "attempted" /\ prod = "parseIdentifierName"

\* C29: parseIdentifierName() consumes exactly one token when it answers true, whether the token is identifier-like (let, async, as, from, yield, of) or a reserved word, and none when it answers false.
IdentifierNameConsumesOne ==
  NameAttempted => IF matched THEN Cur = TokenAhead(entry.Pos)
                   ELSE Cur = entry.Cur /\ adv = entry.adv

\* The bytes of the line terminator at 0-based position p of s: CRLF, CR,
\* LF, U+2028 or U+2029; 0 when none is there
TerminatorAt(s, p) ==
  IF p >= Len(s) THEN 0
  ELSE IF s[p + 1] = CR THEN (IF p + 1 < Len(s) /\ s[p + 2] = LF THEN 2 ELSE 1)
  ELSE IF s[p + 1] = LF THEN 1
  ELSE IF p + 2 < Len(s) /\ SubSeq(s, p + 1, p + 3) \in {LS, PS} THEN 3
  ELSE 0
\* The position after the line terminators that stand in a row at p
RECURSIVE AfterTerminators(_, _)
AfterTerminators(s, p) ==
  IF TerminatorAt(s, p) = 0 THEN p ELSE AfterTerminators(s, p + TerminatorAt(s, p))
\* The 0-based position of the quote q that closes the literal scanned from
\* p on; -1 when a raw line terminator or the end of input comes first.  A
\* backslash takes the character that follows it, or the line terminator
\* that follows it: that one alone, or with whole, all that stand in a row.
RECURSIVE ClosingQuote(_, _, _, _)
ClosingQuote(s, p, q, whole) ==
  IF p >= Len(s) THEN -1
  ELSE IF s[p + 1] = q THEN p
  ELSE IF s[p + 1] = BSL
       THEN IF TerminatorAt(s, p + 1) # 0
            THEN ClosingQuote(s, IF whole THEN AfterTerminators(s, p + 1)
                                 ELSE p + 1 + TerminatorAt(s, p + 1), q, whole)
            ELSE ClosingQuote(s, p + 2, q, whole)
  ELSE IF TerminatorAt(s, p) # 0 THEN -1
  ELSE ClosingQuote(s, p + 1, q, whole)
\* The first token of a source that opens with a quote has been scanned
StringScanned ==
  /\ pc \in {"lex", "lexTerminated"} /\ calls = 1 /\ Src # <<>> /\ Src[1] \in {DQ, SQ}
\* Every backslash of the source stands before a line terminator
OnlyContinuations == \A i \in 1..Len(Src) : Src[i] = BSL => TerminatorAt(Src, i) # 0
\* What C23 says of the first token, p being the closing quote or -1: the
\* invalid token at the opening quote when there is none; a string literal
\* only up to the closing quote; and a string literal whenever nothing but
\* line continuations stands between the quotes
StringTokenFor(p) ==
  /\ p = -1 => tok.kind = "Tok_Invalid" /\ tok.pos = 0
  /\ tok.kind = "Tok_StringLiteral" => p # -1 /\ tok.pos = 0 /\ tok.text = SubSeq(Src, 1, p + 1)
  /\ p # -1 /\ OnlyContinuations => tok.kind = "Tok_StringLiteral"

\* C23: a quoted literal in which a raw line terminator (LF, CR, CRLF, U+2028, U+2029, not preceded by a backslash) or the end of input comes before the closing quote is returned as one invalid token that starts at the opening quote; a string-literal token is returned only when the closing quote comes first, and a backslash followed by a line terminator does not end the literal.
UnterminatedStringIsInvalidToken ==
  StringScanned => StringTokenFor(ClosingQuote(Src, 1, Src[1], FALSE))

\* C23, amended: as above, where the line terminators that stand in a row after a backslash are all taken by that backslash, so that none of them is raw.
UnterminatedStringAfterContinuation ==
  StringScanned => StringTokenFor(ClosingQuote(Src, 1, Src[1], TRUE))

\* A literal broken by a raw line feed has been scanned
UnterminatedStringWitness ==
  /\ StringScanned /\ Src = <<DQ, "a", LF, DQ>>
  /\ tok.kind = "Tok_Invalid" /\ tok.text = <<DQ, "a", LF>>

\* The type the operand right joins to the type left with the operator op:
\* a union or an intersection that takes over the members of a left operand
\* of its own kind
Joined(left, op, right) ==
  IF op = "|"
  THEN UnionType((IF left.type = "UnionType" THEN left.Options ELSE <<left>>) \o <<right>>)
  ELSE IntersectionType((IF left.type = "IntersectionType" THEN left.Parts ELSE <<left>>)
                        \o <<right>>)
\* The type of the annotation left ops[1] operands[1] ..., read from left
\* to right
RECURSIVE TypeOf(_, _, _)
TypeOf(left, operands, ops) ==
  IF operands = <<>> THEN left
  ELSE TypeOf(Joined(left, ops[1], operands[1].type), Tail(operands), Tail(ops))
TypeCases ==
  {[src |-> TypeText(a.operands, a.ops),
    type |-> TypeOf(a.operands[1].type, Tail(a.operands), a.ops)] : a \in TypeAnnotations}
\* parseType() has been applied
TypeAttempted == pc = "attempted" /\ prod = "parseType"

TryResult(r) == IF Src = TryAlone THEN ~r.ok /\ r.error # "" ELSE r.ok
\* parse() has returned for a program that is one try statement
TryParsed == pc = "returned" /\ Src \in TrySources
\* parseStatement() has been applied once to a try statement
TryListed == pc \in {"statementList", "statementListReturned"} /\ calls = 1 /\ Src \in TrySources

\* C25: a try block followed by neither catch nor finally yields a failure with a message, and a try block followed by catch, by finally or by both is matched with success, at the top level of a program and wherever the statement grammar is applied.
TryRequiresHandler ==
  /\ TryParsed => TryResult(result[1])
  /\ TryListed => se # nullopt /\ TryResult(se[1])

\* nextToken() has returned a token to the client
TokenReturned == pc = "lex" /\ calls >= 1 /\ tok.kind # OutOfRange

\* C27: every token nextToken() returns has the text of the source slice that starts at its offset pos and has its length, and right after the call the lexer cursor is pos plus the length of the text.
TokensTileSource ==
  TokenReturned =>
    /\ tok.text = SubSeq(Src, tok.pos + 1, tok.pos + Len(tok.text))
    /\ Pos = tok.pos + Len(tok.text)

\* C28: every nextToken() call that returns a token other than EOF returns a token of length at least 1 and leaves the cursor strictly greater than it was before the call, so that at most Size(Src) + 1 calls reach EOF.
LexerProgress ==
  /\ TokenReturned /\ tok.kind # "Tok_EOF" => Len(tok.text) >= 1 /\ Pos > prevPos
  /\ TokenReturned /\ calls >= Size(Src) + 1 => tok.kind = "Tok_EOF"

\* parse() has returned for a program whose print("x") is nested
NestedPrintParsed == pc = "returned" /\ Src \in NestedPrintSources
\* The statement a print("x") at the top level adds to the Program
NestedPrint == PrintStmt(<<LiteralExpr(<<"x">>)>>, "Tok_Print")

\* C30: a print statement nested inside a block, a function or class body, or the body of a control-flow statement is never added to the returned Program's statement list; only a print statement at the top level of the source is.
OnlyTopLevelPrints ==
  NestedPrintParsed =>
    \A r \in Returned : \A i \in 1..Len(StatementsOf(r)) : StatementsOf(r)[i] # NestedPrint

=========================================================================
